---- MODULE Spec2Model ----
(***************************************************************************)
(* Model of togglgo-mcp: the Toggl tool handlers (app/handlers.go), the    *)
(* transport client and response decoder (client.go) and the parameter     *)
(* extraction helpers (utils.go).                                          *)
(*                                                                         *)
(* Conventions.                                                            *)
(*  - A Go string is a sequence of one-character strings; a formatted      *)
(*    text (fmt.Sprintf) is the concatenation of its pieces, each piece a  *)
(*    string; %d is rendered digit by digit (Itoa).                        *)
(*  - A JSON document (a response body) is a sequence of lexical tokens.   *)
(*  - A float64 parameter is held in tenths (427 stands for 42.7).         *)
(*  - A handler blocks in makeRequest until the transport answers; the     *)
(*    model splits a handler at these points and nowhere else.             *)
(***************************************************************************)
EXTENDS Integers, Sequences, FiniteSets, TLC

VARIABLES
    pc,        \* "idle" | "await" (a request is with the transport) | "done"
    tool,      \* the operation being executed
    step,      \* which request of the handler is in flight (1 or 2)
    args,      \* req.Params.Arguments of the invocation
    requests,  \* the outbound requests handed to the transport, in order
    responses, \* the transport's answers, in order
    current,   \* stop_time_entry: the entry decoded from the lookup
    result,    \* the *mcp.CallToolResult returned
    err,       \* the hard error returned
    dec,       \* the last decodeResponse call: its input and its outputs
    ext,       \* the last parameter-helper call: its input and its outputs
    dur,       \* the last formatDuration call: its input and its output
    client,    \* the *TogglClient every handler is bound to
    opts,      \* the options NewTogglClient was (or is about to be) called with
    inv,       \* handler invocations that run concurrently on the one client
    closed,    \* how often the body of each of the responses has been closed
    mr,        \* the last makeRequest call taken by itself: its input and its outputs
    eis,       \* the last errors.Is call on an *APIError: its input and its output
    proc       \* the process: where main stands, its environment, its exit status

vars == <<pc, tool, step, args, requests, responses, current, result, err, dec, ext,
          dur, client, opts, inv, closed, mr, eis, proc>>

----------------------------------------------------------------------------
(* Strings and formatting *)

RECURSIVE Concat(_)
Concat(ss) == IF ss = <<>> THEN <<>> ELSE Head(ss) \o Concat(Tail(ss))

DigitChar == <<"0", "1", "2", "3", "4", "5", "6", "7", "8", "9">>

RECURSIVE NatStr(_)
NatStr(n) ==
    IF n < 10 THEN <<DigitChar[n + 1]>>
    ELSE NatStr(n \div 10) \o <<DigitChar[(n % 10) + 1]>>

\* fmt's %d verb
Itoa(n) == IF n < 0 THEN <<"-">> \o NatStr(-n) ELSE NatStr(n)

\* strings.Contains on piece sequences
Contains(s, sub) ==
    \E i \in 0..(Len(s) - Len(sub)) : SubSeq(s, i + 1, i + Len(sub)) = sub

----------------------------------------------------------------------------
(* Dynamically typed argument values (interface{}) *)

\* t is the dynamic type; n, s, b are the payload of that type
Val(t, n, s, b) == [t |-> t, n |-> n, s |-> s, b |-> b]
Absent     == Val("absent", 0, <<>>, FALSE)   \* key not in the map
Null       == Val("null", 0, <<>>, FALSE)     \* JSON null: a nil interface
Number(x)  == Val("number", x, <<>>, FALSE)   \* float64, in tenths
GoInt(x)   == Val("int", x, <<>>, FALSE)      \* a Go int, not a float64
String(x)  == Val("string", 0, x, FALSE)
Bool(x)    == Val("bool", 0, <<>>, x)

\* val, ok := params[key].(float64)
IsFloat64(v) == v.t = "number"
\* val, ok := params[key].(string)
IsString(v) == v.t = "string"
\* val, ok := params[key].(bool)
IsBool(v) == v.t = "bool"

\* a conversion that rounds down (toward minus infinity)
TruncFloor(x) == x \div 10

\* Go's int(float64): the fraction is discarded (truncation toward zero)
Trunc(x) == IF x >= 0 THEN x \div 10 ELSE -((-x) \div 10)

\* errors
NilErr == [nil |-> TRUE, msg |-> <<>>, api |-> FALSE, status |-> 0, body |-> <<>>]
\* fmt.Errorf / errors.New with no wrapped error
NewErr(msg) == [nil |-> FALSE, msg |-> msg, api |-> FALSE, status |-> 0, body |-> <<>>]
\* fmt.Errorf("prefix: %w", e): the chain keeps e, so errors.As still finds it
Wrap(prefix, e) == [e EXCEPT !.msg = <<prefix>> \o e.msg]

----------------------------------------------------------------------------
(* Parameter extraction *)

\* a helper that takes the zero value for a missing one
getRequiredNumberNoZero(params, key) ==
    IF ~IsFloat64(params[key]) \/ params[key].n = 0
    THEN [val |-> 0, err |-> NewErr(<<key, " must be a number">>)]
    ELSE [val |-> Trunc(params[key].n), err |-> NilErr]

getRequiredNumber(params, key) ==
    IF ~IsFloat64(params[key])
    THEN [val |-> 0, err |-> NewErr(<<key, " must be a number">>)]
    ELSE [val |-> Trunc(params[key].n), err |-> NilErr]

\* a helper that converts whatever is there (a value of another type gives 0)
getOptionalNumberCoerce(params, key) ==
    IF params[key].t \in {"absent", "null"}
    THEN [present |-> FALSE, val |-> 0]
    ELSE [present |-> TRUE, val |-> Trunc(params[key].n)]

\* a helper that takes the zero value for a missing one
getOptionalNumberNoZero(params, key) ==
    IF IsFloat64(params[key]) /\ params[key].n # 0
    THEN [present |-> TRUE, val |-> Trunc(params[key].n)]
    ELSE [present |-> FALSE, val |-> 0]

\* the *int result: present = non-nil pointer
getOptionalNumber(params, key) ==
    IF IsFloat64(params[key])
    THEN [present |-> TRUE, val |-> Trunc(params[key].n)]
    ELSE [present |-> FALSE, val |-> 0]

getRequiredString(params, key) ==
    IF ~IsString(params[key]) \/ params[key].s = <<>>
    THEN [val |-> <<>>, err |-> NewErr(<<key, " must be a non-empty string">>)]
    ELSE [val |-> params[key].s, err |-> NilErr]

getOptionalString(params, key) ==
    IF IsString(params[key]) THEN params[key].s ELSE <<>>

----------------------------------------------------------------------------
(* JSON: lexical tokens, syntax (checkValid) and decoding (json.Unmarshal) *)

\* object keys, written with their colon
JKeys ==
    ("\"id\":" :> "id") @@ ("\"description\":" :> "description") @@
    ("\"name\":" :> "name") @@ ("\"active\":" :> "active") @@
    ("\"duration\":" :> "duration") @@ ("\"project_id\":" :> "project_id") @@
    ("\"email\":" :> "email") @@ ("\"fullname\":" :> "fullname") @@
    ("\"default_workspace_id\":" :> "default_workspace_id") @@
    ("\"error\":" :> "error")
\* integer literals
JNums == ("0" :> 0) @@ ("7" :> 7) @@ ("60" :> 60) @@ ("-1" :> -1)
\* string literals
JStrs ==
    ("\"Task\"" :> <<"Task">>) @@ ("\"Bad Request\"" :> <<"Bad Request">>) @@
    ("\"\"" :> <<>>)
JBools == ("true" :> TRUE) @@ ("false" :> FALSE)

JNode(k, n, s, b, kids) == [k |-> k, n |-> n, s |-> s, b |-> b, kids |-> kids]
JFail == [ok |-> FALSE, node |-> JNode("null", 0, <<>>, FALSE, <<>>), next |-> 0]
JOk(node, next) == [ok |-> TRUE, node |-> node, next |-> next]

IsScalarTok(t) ==
    t \in DOMAIN JNums \/ t \in DOMAIN JStrs \/ t \in DOMAIN JBools \/ t = "null"

ScalarNode(t) ==
    IF t \in DOMAIN JNums THEN JNode("num", JNums[t], <<>>, FALSE, <<>>)
    ELSE IF t \in DOMAIN JStrs THEN JNode("str", 0, JStrs[t], FALSE, <<>>)
    ELSE IF t \in DOMAIN JBools THEN JNode("bool", 0, <<>>, JBools[t], <<>>)
    ELSE JNode("null", 0, <<>>, FALSE, <<>>)

\* JSON whitespace is insignificant between tokens
StripSpace(toks) == SelectSeq(toks, LAMBDA t : t # " ")

RECURSIVE ParseValue(_, _), ParseMembers(_, _, _), ParseElems(_, _, _)

\* value at toks[i]: a scalar, an object or an array
ParseValue(toks, i) ==
    IF i > Len(toks) THEN JFail
    ELSE IF IsScalarTok(toks[i]) THEN JOk(ScalarNode(toks[i]), i + 1)
    ELSE IF toks[i] = "{" THEN
        IF i + 1 <= Len(toks) /\ toks[i + 1] = "}"
        THEN JOk(JNode("obj", 0, <<>>, FALSE, <<>>), i + 2)
        ELSE ParseMembers(toks, i + 1, <<>>)
    ELSE IF toks[i] = "[" THEN
        IF i + 1 <= Len(toks) /\ toks[i + 1] = "]"
        THEN JOk(JNode("arr", 0, <<>>, FALSE, <<>>), i + 2)
        ELSE ParseElems(toks, i + 1, <<>>)
    ELSE JFail

\* key value ( , key value )* }
ParseMembers(toks, i, acc) ==
    IF i > Len(toks) \/ toks[i] \notin DOMAIN JKeys THEN JFail
    ELSE LET v == ParseValue(toks, i + 1) IN
        IF ~v.ok \/ v.next > Len(toks) THEN JFail
        ELSE LET acc2 == Append(acc, [key |-> JKeys[toks[i]], v |-> v.node]) IN
            IF toks[v.next] = "}" THEN JOk(JNode("obj", 0, <<>>, FALSE, acc2), v.next + 1)
            ELSE IF toks[v.next] = "," THEN ParseMembers(toks, v.next + 1, acc2)
            ELSE JFail

\* value ( , value )* ]
ParseElems(toks, i, acc) ==
    LET v == ParseValue(toks, i) IN
        IF ~v.ok \/ v.next > Len(toks) THEN JFail
        ELSE LET acc2 == Append(acc, [key |-> "", v |-> v.node]) IN
            IF toks[v.next] = "]" THEN JOk(JNode("arr", 0, <<>>, FALSE, acc2), v.next + 1)
            ELSE IF toks[v.next] = "," THEN ParseElems(toks, v.next + 1, acc2)
            ELSE JFail

\* checkValid: exactly one value, nothing after it
ParseJSON(body) ==
    LET toks == StripSpace(body)
        r == ParseValue(toks, 1)
    IN IF r.ok /\ r.next = Len(toks) + 1 THEN r ELSE JFail

\* target types (the fields the handlers read)
Shape(slice, fields) == [slice |-> slice, fields |-> fields]
UserInfoFields ==
    ("id" :> "int") @@ ("email" :> "string") @@ ("fullname" :> "string") @@
    ("default_workspace_id" :> "int")
TimeEntryFields ==
    ("id" :> "int") @@ ("project_id" :> "intptr") @@ ("description" :> "string") @@
    ("duration" :> "int")
ProjectFields == ("id" :> "int") @@ ("name" :> "string") @@ ("active" :> "bool")
UserInfo      == Shape(FALSE, UserInfoFields)
TimeEntry     == Shape(FALSE, TimeEntryFields)
TimeEntryList == Shape(TRUE, TimeEntryFields)
Project       == Shape(FALSE, ProjectFields)
ProjectList   == Shape(TRUE, ProjectFields)

\* a field's value; set is the non-nil flag of a pointer field
Cell(n, s, b, set) == [n |-> n, s |-> s, b |-> b, set |-> set]
ZeroCell == Cell(0, <<>>, FALSE, FALSE)
ZeroStruct(fields) == [f \in DOMAIN fields |-> ZeroCell]
\* var result T
Zero(shape) == IF shape.slice THEN <<>> ELSE ZeroStruct(shape.fields)

NodeFits(node, type) ==
    \/ type \in {"int", "intptr"} /\ node.k = "num"
    \/ type = "string" /\ node.k = "str"
    \/ type = "bool" /\ node.k = "bool"

CellOf(node, type) ==
    IF type = "int" THEN Cell(node.n, <<>>, FALSE, FALSE)
    ELSE IF type = "intptr" THEN Cell(node.n, <<>>, FALSE, TRUE)
    ELSE IF type = "string" THEN Cell(0, node.s, FALSE, FALSE)
    ELSE Cell(0, <<>>, node.b, FALSE)

\* d.object: the members are stored in order; a member of the wrong type is
\* skipped and the first such error is kept (d.saveError), decoding goes on
RECURSIVE DecodeMembers(_, _, _, _)
DecodeMembers(kids, fields, val, bad) ==
    IF kids = <<>> THEN [val |-> val, bad |-> bad]
    ELSE LET m == Head(kids) IN
        IF m.key \notin DOMAIN fields THEN DecodeMembers(Tail(kids), fields, val, bad)
        ELSE IF m.v.k = "null" THEN
            DecodeMembers(Tail(kids), fields,
                          IF fields[m.key] = "intptr"
                          THEN [val EXCEPT ![m.key] = ZeroCell] ELSE val, bad)
        ELSE IF NodeFits(m.v, fields[m.key]) THEN
            DecodeMembers(Tail(kids), fields,
                          [val EXCEPT ![m.key] = CellOf(m.v, fields[m.key])], bad)
        ELSE DecodeMembers(Tail(kids), fields, val, TRUE)

\* a value into a struct
DecodeStruct(node, fields, val) ==
    IF node.k = "null" THEN [val |-> val, bad |-> FALSE]
    ELSE IF node.k = "obj" THEN DecodeMembers(node.kids, fields, val, FALSE)
    ELSE [val |-> val, bad |-> TRUE]

\* d.array into a slice: every element is decoded into a fresh element
RECURSIVE DecodeElems(_, _, _, _)
DecodeElems(kids, fields, val, bad) ==
    IF kids = <<>> THEN [val |-> val, bad |-> bad]
    ELSE LET e == DecodeStruct(Head(kids).v, fields, ZeroStruct(fields)) IN
        DecodeElems(Tail(kids), fields, Append(val, e.val), bad \/ e.bad)

DecodeValue(node, shape, val) ==
    IF ~shape.slice THEN DecodeStruct(node, shape.fields, val)
    ELSE IF node.k = "null" THEN [val |-> <<>>, bad |-> FALSE]
    ELSE IF node.k = "arr" THEN DecodeElems(node.kids, shape.fields, <<>>, FALSE)
    ELSE [val |-> val, bad |-> TRUE]

\* the decoder's result once the document is walked: the first type error, if any
Stored(d) ==
    [val |-> d.val,
     err |-> IF d.bad THEN NewErr(<<"json: cannot unmarshal">>) ELSE NilErr]

DecodeParsed(p, shape, val) ==
    IF ~p.ok THEN [val |-> val, err |-> NewErr(<<"invalid JSON">>)]
    ELSE Stored(DecodeValue(p.node, shape, val))

\* json.Unmarshal(body, &result): a syntax error is found before anything is
\* stored; a type error is returned after the rest was stored
Unmarshal(body, shape, val) == DecodeParsed(ParseJSON(body), shape, val)

----------------------------------------------------------------------------
(* Errors of the API *)

\* (e *APIError) Error()
APIErrorString(e) == <<"API error (status ">> \o Itoa(e.status) \o <<"): ">> \o e.body

\* &APIError{StatusCode: ..., Body: ...}
APIError(status, body) ==
    [nil |-> FALSE, msg |-> <<"API error (status ">> \o Itoa(status) \o <<"): ">> \o body,
     api |-> TRUE, status |-> status, body |-> body]

\* errors.As(err, &apiErr)
ErrorsAsAPIError(e) == ~e.nil /\ e.api

\* errors.Is(err, ErrAPIRequest): (*APIError).Is answers for the sentinel
ErrorsIsErrAPIRequest(e) == ~e.nil /\ e.api

----------------------------------------------------------------------------
(* Response decoder *)

Response(status, body, readOK) == [status |-> status, body |-> body, readOK |-> readOK]

\* a decoder that parses the error body and writes it again (insignificant
\* whitespace is lost)
BodyStringCompact(body) == StripSpace(body)

\* string(body) of the bytes read
BodyString(body) == body

\* a decoder that reports a parse failure as an error of the API
DecodedAsAPIError(u) ==
    IF ~u.err.nil
    THEN [val |-> u.val, err |-> APIError(0, u.err.msg)]
    ELSE [val |-> u.val, err |-> NilErr]

\* the end of decodeResponse: result is returned as json.Unmarshal left it
Decoded(u) ==
    IF ~u.err.nil
    THEN [val |-> u.val, err |-> Wrap("decoding response: ", u.err)]
    ELSE [val |-> u.val, err |-> NilErr]

decodeResponse(resp, shape) ==
    IF ~resp.readOK
    THEN [val |-> Zero(shape),
          err |-> Wrap("reading response body: ", NewErr(<<"read error">>))]
    ELSE IF resp.status < 200 \/ resp.status >= 300
    THEN [val |-> Zero(shape), err |-> APIError(resp.status, BodyString(resp.body))]
    ELSE Decoded(Unmarshal(resp.body, shape, Zero(shape)))

----------------------------------------------------------------------------
(* Dates: time.Parse("2006-01-02", s), AddDate(0, 0, 1), Format *)

IsDigit(c) == \E i \in 1..10 : DigitChar[i] = c
DigitVal(c) == (CHOOSE i \in 1..10 : DigitChar[i] = c) - 1
Num2(s, i) == DigitVal(s[i]) * 10 + DigitVal(s[i + 1])

IsLeap(y) == y % 4 = 0 /\ (y % 100 # 0 \/ y % 400 = 0)
DaysIn(y, m) ==
    IF m = 2 THEN (IF IsLeap(y) THEN 29 ELSE 28)
    ELSE IF m \in {4, 6, 9, 11} THEN 30 ELSE 31

\* four-digit year, two-digit month and day, "-" between, a day of that month
ParseDate(s) ==
    IF /\ Len(s) = 10
       /\ s[5] = "-" /\ s[8] = "-"
       /\ \A i \in {1, 2, 3, 4, 6, 7, 9, 10} : IsDigit(s[i])
    THEN LET y == Num2(s, 1) * 100 + Num2(s, 3)
             m == Num2(s, 6)
             d == Num2(s, 9)
         IN [ok |-> m \in 1..12 /\ d >= 1 /\ d <= DaysIn(y, m), y |-> y, m |-> m, d |-> d]
    ELSE [ok |-> FALSE, y |-> 0, m |-> 0, d |-> 0]

\* the day after in a calendar whose February has 28 days
AddDayNoLeap(t) ==
    IF t.d < (IF t.m = 2 THEN 28 ELSE DaysIn(t.y, t.m)) THEN [t EXCEPT !.d = t.d + 1]
    ELSE IF t.m < 12 THEN [t EXCEPT !.m = t.m + 1, !.d = 1]
    ELSE [t EXCEPT !.y = t.y + 1, !.m = 1, !.d = 1]

\* date.AddDate(0, 0, 1): the day after, normalised
AddDay(t) ==
    IF t.d < DaysIn(t.y, t.m) THEN [t EXCEPT !.d = t.d + 1]
    ELSE IF t.m < 12 THEN [t EXCEPT !.m = t.m + 1, !.d = 1]
    ELSE [t EXCEPT !.y = t.y + 1, !.m = 1, !.d = 1]

Pad2(n) == <<DigitChar[((n \div 10) % 10) + 1], DigitChar[(n % 10) + 1]>>
\* t.Format("2006-01-02"): the year with four digits, or more when it needs them
FormatDate(t) ==
    (IF t.y > 9999 THEN NatStr(t.y) ELSE Pad2(t.y \div 100) \o Pad2(t.y % 100))
    \o <<"-">> \o Pad2(t.m) \o <<"-">> \o Pad2(t.d)

----------------------------------------------------------------------------
(* Duration formatting *)

\* formatDuration with hours taken modulo a day
formatDurationDayCapped(seconds) ==
    IF seconds < 0 THEN <<"[running]">>
    ELSE LET hours   == (seconds \div 3600) % 24
             minutes == (seconds % 3600) \div 60
             secs    == seconds % 60
         IN IF hours > 0
            THEN <<"[">> \o Itoa(hours) \o <<"h ">> \o Itoa(minutes) \o <<"m ">> \o Itoa(secs) \o <<"s]">>
            ELSE IF minutes > 0
            THEN <<"[">> \o Itoa(minutes) \o <<"m ">> \o Itoa(secs) \o <<"s]">>
            ELSE <<"[">> \o Itoa(secs) \o <<"s]">>

formatDuration(seconds) ==
    IF seconds < 0 THEN <<"[running]">>
    ELSE LET hours   == seconds \div 3600
             minutes == (seconds % 3600) \div 60
             secs    == seconds % 60
         IN IF hours > 0
            THEN <<"[">> \o Itoa(hours) \o <<"h ">> \o Itoa(minutes) \o <<"m ">> \o Itoa(secs) \o <<"s]">>
            ELSE IF minutes > 0
            THEN <<"[">> \o Itoa(minutes) \o <<"m ">> \o Itoa(secs) \o <<"s]">>
            ELSE <<"[">> \o Itoa(secs) \o <<"s]">>

----------------------------------------------------------------------------
(* Transport client *)

togglAPIBase == "https://api.track.toggl.com/api/v9"

MethodGet   == "GET"
MethodPost  == "POST"
MethodPatch == "PATCH"
StatusNotFound == 404

NoBody == [present |-> FALSE, description |-> <<>>, duration |-> 0, created_with |-> "",
           project_id |-> [present |-> FALSE, val |-> 0], name |-> <<>>, active |-> FALSE,
           color |-> <<>>, client_id |-> [present |-> FALSE, val |-> 0]]

defaultTimeout == 30

\* an *http.Client: which client it is, and its Timeout in seconds
HTTPClient(id, timeout) == [id |-> id, Timeout |-> timeout]
\* slog.Default()
slogDefault == "slog.Default"

\* the functional options
WithHTTPClient(cl) == [opt |-> "WithHTTPClient", client |-> cl, logger |-> "", timeout |-> 0]
WithLogger(logger) ==
    [opt |-> "WithLogger", client |-> HTTPClient("", 0), logger |-> logger, timeout |-> 0]
WithTimeout(timeout) ==
    [opt |-> "WithTimeout", client |-> HTTPClient("", 0), logger |-> "", timeout |-> timeout]

\* opt(c)
ApplyOption(c, o) ==
    CASE o.opt = "WithHTTPClient" -> [c EXCEPT !.client = o.client]
      [] o.opt = "WithLogger" -> [c EXCEPT !.logger = o.logger]
      [] o.opt = "WithTimeout" -> [c EXCEPT !.client.Timeout = o.timeout]

\* for _, opt := range opts { opt(c) }
RECURSIVE ApplyOptions(_, _)
ApplyOptions(c, os) ==
    IF os = <<>> THEN c ELSE ApplyOptions(ApplyOption(c, Head(os)), Tail(os))

NewTogglClient(apiToken, os) ==
    ApplyOptions([APIToken |-> apiToken,
                  client |-> HTTPClient("default", defaultTimeout),
                  logger |-> slogDefault],
                 os)

\* no client constructed yet
NoClient == [APIToken |-> "", client |-> HTTPClient("", 0), logger |-> ""]

\* makeRequest, the part a handler decides: method, endpoint and body
makeRequest(method, endpoint, body) ==
    [method |-> method, url |-> <<togglAPIBase>> \o endpoint, endpoint |-> endpoint,
     body |-> body]

\* c.logger.Debug("making API request", slog.String("method", method),
\* slog.String("endpoint", endpoint)): the one record makeRequest writes
DebugRecord(method, endpoint) ==
    [level |-> "DEBUG", msg |-> "making API request",
     attrs |-> << <<"method", <<method>> >>, <<"endpoint", endpoint>> >>]

\* a request whose Basic auth has the token in the password's place
DoTokenAsPassword(c, req) ==
    [method |-> req.method, url |-> req.url, endpoint |-> req.endpoint, body |-> req.body,
     header |-> [ContentType |-> "application/json"],
     auth |-> [username |-> "api_token", password |-> c.APIToken],
     logger |-> c.logger,
     log |-> <<DebugRecord(req.method, req.endpoint)>>,
     via |-> c.client]

\* a client whose debug record also carries the credentials and the body
DoLogsRequest(c, req) ==
    [method |-> req.method, url |-> req.url, endpoint |-> req.endpoint, body |-> req.body,
     header |-> [ContentType |-> "application/json"],
     auth |-> [username |-> c.APIToken, password |-> "api_token"],
     logger |-> c.logger,
     log |-> <<[level |-> "DEBUG", msg |-> "making API request",
                attrs |-> << <<"method", <<req.method>> >>, <<"endpoint", req.endpoint>>,
                             <<"token", <<c.APIToken>> >>, <<"body", req.body>> >>]>>,
     via |-> c.client]

\* makeRequest, the part the client c decides: the headers it sets, the
\* logger it writes to, the record it writes there (log) and the *http.Client
\* whose Do gets the request
Do(c, req) ==
    [method |-> req.method, url |-> req.url, endpoint |-> req.endpoint, body |-> req.body,
     header |-> [ContentType |-> "application/json"],
     auth |-> [username |-> c.APIToken, password |-> "api_token"],
     logger |-> c.logger,
     log |-> <<DebugRecord(req.method, req.endpoint)>>,
     via |-> c.client]

\* c.client.Do failed: fmt.Errorf("executing request: %w", err)
ExecErr == Wrap("executing request: ", NewErr(<<"transport error">>))

\* bytes url.Parse refuses anywhere in a URL (control characters), and a
\* piece that is no percent-escape
ControlBytes == {"\\x00", "\n", "\\x7f"}
BadEscapes == {"%zz"}

\* a constructor of requests that takes any text for a URL
NewRequestAcceptsAll(url) == FALSE

\* http.NewRequestWithContext(ctx, method, url, body) returns an error:
\* url.Parse(url) has failed
NewRequestFails(url) == \E i \in 1..Len(url) : url[i] \in ControlBytes \cup BadEscapes

\* makeRequest as a whole, on the answer ans of the transport: the response
\* and the error it returns, the requests it handed to c.client.Do (sent)
\* and the records it wrote to c.logger (log)
makeRequestReturns(c, method, endpoint, body, ans) ==
    IF NewRequestFails(makeRequest(method, endpoint, body).url)
    THEN [hasResp |-> FALSE, resp |-> Response(0, <<>>, TRUE),
          err |-> Wrap("creating request: ",
                       NewErr(<<"parse ">> \o makeRequest(method, endpoint, body).url
                              \o <<": invalid URL">>)),
          sent |-> <<>>, log |-> <<>>]
    ELSE IF ~ans.ok
    THEN [hasResp |-> FALSE, resp |-> Response(0, <<>>, TRUE), err |-> ExecErr,
          sent |-> <<Do(c, makeRequest(method, endpoint, body))>>,
          log |-> Do(c, makeRequest(method, endpoint, body)).log]
    ELSE [hasResp |-> TRUE, resp |-> ans.resp, err |-> NilErr,
          sent |-> <<Do(c, makeRequest(method, endpoint, body))>>,
          log |-> Do(c, makeRequest(method, endpoint, body)).log]

----------------------------------------------------------------------------
(* errors.Is on an *APIError.  An error value here is what errors.Is can     *)
(* tell apart: a sentinel (one variable of the package), nil, a value made   *)
(* by errors.New elsewhere, or an *APIError with the address it lives at.    *)

Sentinels == {"ErrNoAPIToken", "ErrInvalidWorkspace", "ErrInvalidProject", "ErrInvalidDate",
              "ErrNoRunningEntry", "ErrAPIRequest"}
Sentinel(name) == [kind |-> "sentinel", name |-> name, ptr |-> 0, status |-> 0, body |-> <<>>]
ErrAPIRequest == Sentinel("ErrAPIRequest")
NilError == [kind |-> "nil", name |-> "", ptr |-> 0, status |-> 0, body |-> <<>>]
\* errors.New(text) somewhere else: a value of its own, whatever its text
ErrorsNew(text) == [kind |-> "new", name |-> text, ptr |-> 0, status |-> 0, body |-> <<>>]
\* the *APIError allocated at ptr
APIErrorAt(ptr, status, body) ==
    [kind |-> "APIError", name |-> "", ptr |-> ptr, status |-> status, body |-> body]

\* an Is method that answers for every sentinel of the package
APIErrorIsAnySentinel(e, target) == target.kind = "sentinel"

\* (e *APIError) Is(target error) bool
APIErrorIs(e, target) == target = ErrAPIRequest

\* errors.Is(err, target) for an *APIError err: nil matches nothing, then
\* err == target, then err.Is(target); an *APIError has no Unwrap
ErrorsIs(e, target) ==
    IF target.kind = "nil" THEN FALSE
    ELSE e = target \/ APIErrorIs(e, target)

----------------------------------------------------------------------------
(* main: the environment of the process and the steps of its start *)

\* the variable TOGGL_API_TOKEN of the environment
Unset == [set |-> FALSE, val |-> ""]
EnvSet(v) == [set |-> TRUE, val |-> v]
\* os.Getenv: the empty string for a variable that is not set
Getenv(e) == IF e.set THEN e.val ELSE ""

\* a main that starts whatever the token is
TokenMissingNever(apiToken) == FALSE

\* if apiToken == "" { ...; os.Exit(1) }
TokenMissing(apiToken) == apiToken = ""

\* the tools SetupTools registers, and the error it returns
ToolNames == {"test_connection", "start_time_entry", "stop_time_entry",
              "get_current_time_entry", "get_time_entries", "get_time_entries_for_day",
              "create_project", "get_projects"}
SetupTools == [tools |-> ToolNames, err |-> NilErr]

\* what server.ServeStdio returns
ServeErrors == {NilErr, NewErr(<<"context canceled">>), NewErr(<<"EOF">>)}
\* errors.Is(err, context.Canceled)
IsContextCanceled(e) == e = NewErr(<<"context canceled">>)

\* at: where main stands; tools: the tools registered with the server;
\* served: server.ServeStdio has been called; code: the exit status
NoProc == [at |-> "", env |-> Unset, tools |-> {}, served |-> FALSE, exited |-> FALSE,
           code |-> 0]

----------------------------------------------------------------------------
(* Tool results (mcp.CallToolResult) *)

NilResult == [nil |-> TRUE, IsError |-> FALSE, text |-> <<>>]
NewToolResultText(text)  == [nil |-> FALSE, IsError |-> FALSE, text |-> text]
NewToolResultError(text) == [nil |-> FALSE, IsError |-> TRUE, text |-> text]

\* what a handler does next: return (result, err), or hand a request to the transport
NoReq == makeRequest("", <<>>, NoBody)
Ret(res, e) == [k |-> "return", res |-> res, err |-> e, req |-> NoReq]
Send(req)   == [k |-> "send", res |-> NilResult, err |-> NilErr, req |-> req]

\* closes: how often the step closed the body of the response it was given
NoDec == [called |-> FALSE, shape |-> UserInfo, resp |-> Response(0, <<>>, TRUE),
          val |-> <<>>, err |-> NilErr, closes |-> 0]
\* decodeResponse(resp) was called: its defer resp.Body.Close() has run
Dec(shape, resp, d) ==
    [called |-> TRUE, shape |-> shape, resp |-> resp, val |-> d.val, err |-> d.err,
     closes |-> 1]
\* resp.Body.Close() by the handler itself, with no decodeResponse
BodyClosed == [NoDec EXCEPT !.closes = 1]

----------------------------------------------------------------------------
(* Tool handlers.  XStart is the handler up to its first makeRequest, XResp  *)
(* the handler from the transport's answer up to decodeResponse, XDecoded    *)
(* the handler from there on (d is what decodeResponse returned).  ans.ok =  *)
(* FALSE is an error of c.client.Do.  A step yields [s: what the handler     *)
(* does, dec: the decodeResponse call it made, cur: the entry it holds].     *)

Step(s, d, cur) == [s |-> s, dec |-> d, cur |-> cur]
NoEntry == ZeroStruct(TimeEntryFields)

\* handleTestConnection
TestConnectionStart(a) == Send(makeRequest(MethodGet, <<"/me">>, NoBody))

TestConnectionDecoded(a, resp, d) ==
    Step(IF ~d.err.nil
         THEN IF ErrorsAsAPIError(d.err)
              THEN Ret(NewToolResultError(<<"Authentication failed: ">> \o APIErrorString(d.err)), NilErr)
              ELSE Ret(NilResult, Wrap("parsing user info: ", d.err))
         ELSE Ret(NewToolResultText(
                    <<"Authentication successful!\nUser: ">> \o d.val["fullname"].s
                    \o <<"\nEmail: ">> \o d.val["email"].s
                    \o <<"\nDefault Workspace ID: ">> \o Itoa(d.val["default_workspace_id"].n)),
                  NilErr),
         Dec(UserInfo, resp, d), NoEntry)

TestConnectionResp(a, ans) ==
    IF ~ans.ok THEN Step(Ret(NilResult, Wrap("connecting to Toggl API: ", ExecErr)), NoDec, NoEntry)
    ELSE TestConnectionDecoded(a, ans.resp, decodeResponse(ans.resp, UserInfo))

\* a handler whose payload leaves out a project_id of 0
StartTimeEntryStartOmitsZeroProject(a) ==
    LET description == getRequiredString(a, "description")
        workspaceID == getRequiredNumber(a, "workspace_id")
        projectID == getOptionalNumber(a, "project_id")
    IN IF ~description.err.nil THEN Ret(NilResult, Wrap("invalid description: ", description.err))
       ELSE IF ~workspaceID.err.nil THEN Ret(NilResult, Wrap("invalid workspace_id: ", workspaceID.err))
       ELSE Send(makeRequest(MethodPost,
                             <<"/workspaces/">> \o Itoa(workspaceID.val) \o <<"/time_entries">>,
                             [NoBody EXCEPT !.present = TRUE,
                                            !.description = description.val,
                                            !.duration = -1,
                                            !.created_with = "toggl-mcp",
                                            !.project_id =
                                                IF projectID.val = 0
                                                THEN [present |-> FALSE, val |-> 0]
                                                ELSE projectID]))

\* handleStartTimeEntry
StartTimeEntryStart(a) ==
    LET description == getRequiredString(a, "description")
        workspaceID == getRequiredNumber(a, "workspace_id")
    IN IF ~description.err.nil THEN Ret(NilResult, Wrap("invalid description: ", description.err))
       ELSE IF ~workspaceID.err.nil THEN Ret(NilResult, Wrap("invalid workspace_id: ", workspaceID.err))
       ELSE Send(makeRequest(MethodPost,
                             <<"/workspaces/">> \o Itoa(workspaceID.val) \o <<"/time_entries">>,
                             [NoBody EXCEPT !.present = TRUE,
                                            !.description = description.val,
                                            !.duration = -1,
                                            !.created_with = "toggl-mcp",
                                            !.project_id = getOptionalNumber(a, "project_id")]))

StartTimeEntryDecoded(a, resp, d) ==
    Step(IF ~d.err.nil
         THEN IF ErrorsAsAPIError(d.err)
              THEN Ret(NewToolResultError(<<"Failed to start time entry: ">> \o APIErrorString(d.err)), NilErr)
              ELSE Ret(NilResult, Wrap("decoding response: ", d.err))
         ELSE Ret(NewToolResultText(<<"Started time entry: ">> \o d.val["description"].s
                                    \o <<" (ID: ">> \o Itoa(d.val["id"].n) \o <<")">>),
                  NilErr),
         Dec(TimeEntry, resp, d), NoEntry)

StartTimeEntryResp(a, ans) ==
    IF ~ans.ok THEN Step(Ret(NilResult, Wrap("starting time entry: ", ExecErr)), NoDec, NoEntry)
    ELSE StartTimeEntryDecoded(a, ans.resp, decodeResponse(ans.resp, TimeEntry))

\* handleStopTimeEntry
StopTimeEntryStart(a) ==
    LET workspaceID == getRequiredNumber(a, "workspace_id") IN
        IF ~workspaceID.err.nil THEN Ret(NilResult, Wrap("invalid workspace_id: ", workspaceID.err))
        ELSE Send(makeRequest(MethodGet, <<"/me/time_entries/current">>, NoBody))

\* a PATCH whose path has the two ids in each other's place
StopTimeEntryLookupDecodedSwapped(a, resp, d) ==
    LET workspaceID == getRequiredNumber(a, "workspace_id") IN
        Step(IF ~d.err.nil
             THEN Ret(NilResult, Wrap("parsing current entry: ", d.err))
             ELSE Send(makeRequest(MethodPatch,
                                   <<"/workspaces/">> \o Itoa(d.val["id"].n)
                                   \o <<"/time_entries/">> \o Itoa(workspaceID.val) \o <<"/stop">>,
                                   NoBody)),
             Dec(TimeEntry, resp, d),
             IF d.err.nil THEN d.val ELSE NoEntry)

\* from the lookup's answer to the PATCH
StopTimeEntryLookupDecoded(a, resp, d) ==
    LET workspaceID == getRequiredNumber(a, "workspace_id") IN
        Step(IF ~d.err.nil
                 THEN Ret(NilResult, Wrap("parsing current entry: ", d.err))
                 ELSE Send(makeRequest(MethodPatch,
                                       <<"/workspaces/">> \o Itoa(workspaceID.val)
                                       \o <<"/time_entries/">> \o Itoa(d.val["id"].n) \o <<"/stop">>,
                                       NoBody)),
                 Dec(TimeEntry, resp, d),
                 IF d.err.nil THEN d.val ELSE NoEntry)

\* a lookup that has no carve-out for the 404
StopTimeEntryLookupRespNo404(a, ans) ==
    IF ~ans.ok THEN Step(Ret(NilResult, Wrap("getting current time entry: ", ExecErr)), NoDec, NoEntry)
    ELSE StopTimeEntryLookupDecoded(a, ans.resp, decodeResponse(ans.resp, TimeEntry))

StopTimeEntryLookupResp(a, ans) ==
    IF ~ans.ok THEN Step(Ret(NilResult, Wrap("getting current time entry: ", ExecErr)), NoDec, NoEntry)
    ELSE IF ans.resp.status = StatusNotFound
    THEN Step(Ret(NewToolResultText(<<"No running time entry found">>), NilErr), BodyClosed, NoEntry)
    ELSE StopTimeEntryLookupDecoded(a, ans.resp, decodeResponse(ans.resp, TimeEntry))

\* from the PATCH's answer on
\* a handler that takes a 404 on the PATCH for "already stopped"
StopTimeEntryStopDecodedForgives404(a, cur, resp, d) ==
    Step(IF ~d.err.nil /\ ~(ErrorsAsAPIError(d.err) /\ d.err.status = 404)
         THEN IF ErrorsAsAPIError(d.err)
              THEN Ret(NewToolResultError(<<"Failed to stop time entry: ">> \o APIErrorString(d.err)), NilErr)
              ELSE Ret(NilResult, Wrap("decoding stop response: ", d.err))
         ELSE Ret(NewToolResultText(<<"Stopped time entry: ">> \o cur["description"].s
                                    \o <<" (ID: ">> \o Itoa(cur["id"].n) \o <<")">>),
                  NilErr),
         Dec(TimeEntry, resp, d), cur)

\* a handler that reports the entry the PATCH returned
StopTimeEntryStopDecodedReportsStopped(a, cur, resp, d) ==
    Step(IF ~d.err.nil
         THEN IF ErrorsAsAPIError(d.err)
              THEN Ret(NewToolResultError(<<"Failed to stop time entry: ">> \o APIErrorString(d.err)), NilErr)
              ELSE Ret(NilResult, Wrap("decoding stop response: ", d.err))
         ELSE Ret(NewToolResultText(<<"Stopped time entry: ">> \o d.val["description"].s
                                    \o <<" (ID: ">> \o Itoa(d.val["id"].n) \o <<")">>),
                  NilErr),
         Dec(TimeEntry, resp, d), cur)

StopTimeEntryStopDecoded(a, cur, resp, d) ==
    Step(IF ~d.err.nil
         THEN IF ErrorsAsAPIError(d.err)
              THEN Ret(NewToolResultError(<<"Failed to stop time entry: ">> \o APIErrorString(d.err)), NilErr)
              ELSE Ret(NilResult, Wrap("decoding stop response: ", d.err))
         ELSE Ret(NewToolResultText(<<"Stopped time entry: ">> \o cur["description"].s
                                    \o <<" (ID: ">> \o Itoa(cur["id"].n) \o <<")">>),
                  NilErr),
         Dec(TimeEntry, resp, d), cur)

\* a handler that reports success when the PATCH could not be sent
StopTimeEntryStopRespHidesDoError(a, cur, ans) ==
    IF ~ans.ok
    THEN Step(Ret(NewToolResultText(<<"Stopped time entry: ">> \o cur["description"].s
                                    \o <<" (ID: ">> \o Itoa(cur["id"].n) \o <<")">>),
                  NilErr),
              NoDec, cur)
    ELSE StopTimeEntryStopDecoded(a, cur, ans.resp, decodeResponse(ans.resp, TimeEntry))

StopTimeEntryStopResp(a, cur, ans) ==
    IF ~ans.ok THEN Step(Ret(NilResult, Wrap("stopping time entry: ", ExecErr)), NoDec, cur)
    ELSE StopTimeEntryStopDecoded(a, cur, ans.resp, decodeResponse(ans.resp, TimeEntry))

\* handleGetCurrentTimeEntry
GetCurrentTimeEntryStart(a) == Send(makeRequest(MethodGet, <<"/me/time_entries/current">>, NoBody))

GetCurrentTimeEntryDecoded(a, resp, d) ==
    Step(IF ~d.err.nil
         THEN IF ErrorsAsAPIError(d.err)
              THEN Ret(NewToolResultError(<<"Failed to get current entry: ">> \o APIErrorString(d.err)), NilErr)
              ELSE Ret(NilResult, Wrap("parsing response: ", d.err))
         ELSE Ret(NewToolResultText(<<"Current time entry: ">> \o d.val["description"].s
                                    \o <<" (ID: ">> \o Itoa(d.val["id"].n)
                                    \o <<", Running for: ", "<time.Since(start)>", ")">>),
                  NilErr),
         Dec(TimeEntry, resp, d), NoEntry)

\* a handler that sends its request again when the transport failed
GetCurrentTimeEntryRespRetries(a, ans) ==
    IF ~ans.ok THEN Step(GetCurrentTimeEntryStart(a), NoDec, NoEntry)
    ELSE GetCurrentTimeEntryDecoded(a, ans.resp, decodeResponse(ans.resp, TimeEntry))

\* a handler that returns on the 404 and leaves the body open
GetCurrentTimeEntryRespLeaks404(a, ans) ==
    IF ~ans.ok THEN Step(Ret(NilResult, Wrap("getting current time entry: ", ExecErr)), NoDec, NoEntry)
    ELSE IF ans.resp.status = StatusNotFound
    THEN Step(Ret(NewToolResultText(<<"No running time entry found">>), NilErr), NoDec, NoEntry)
    ELSE GetCurrentTimeEntryDecoded(a, ans.resp, decodeResponse(ans.resp, TimeEntry))

GetCurrentTimeEntryResp(a, ans) ==
    IF ~ans.ok THEN Step(Ret(NilResult, Wrap("getting current time entry: ", ExecErr)), NoDec, NoEntry)
    ELSE IF ans.resp.status = StatusNotFound
    THEN Step(Ret(NewToolResultText(<<"No running time entry found">>), NilErr), BodyClosed, NoEntry)
    ELSE GetCurrentTimeEntryDecoded(a, ans.resp, decodeResponse(ans.resp, TimeEntry))

\* url.Values.Encode: key=value pairs joined by "&", keys in sorted order
EncodeDates(startDate, endDate) ==
    LET e == IF endDate # <<>> THEN <<"end_date=">> \o endDate ELSE <<>>
        b == IF startDate # <<>> THEN <<"start_date=">> \o startDate ELSE <<>>
    IN e \o (IF e # <<>> /\ b # <<>> THEN <<"&">> ELSE <<>>) \o b

\* a handler that checks the start date only
GetTimeEntriesStartNoEndCheck(a) ==
    LET startDate == getOptionalString(a, "start_date")
        endDate   == getOptionalString(a, "end_date")
    IN IF startDate # <<>> /\ ~ParseDate(startDate).ok
       THEN Ret(NilResult, NewErr(<<"invalid start_date format (use YYYY-MM-DD): ", "parsing time">>))
       ELSE Send(makeRequest(MethodGet,
                             <<"/me/time_entries">>
                             \o (IF startDate # <<>> \/ endDate # <<>>
                                 THEN <<"?">> \o EncodeDates(startDate, endDate) ELSE <<>>),
                             NoBody))

\* handleGetTimeEntries
GetTimeEntriesStart(a) ==
    LET startDate == getOptionalString(a, "start_date")
        endDate   == getOptionalString(a, "end_date")
    IN IF startDate # <<>> /\ ~ParseDate(startDate).ok
       THEN Ret(NilResult, NewErr(<<"invalid start_date format (use YYYY-MM-DD): ", "parsing time">>))
       ELSE IF endDate # <<>> /\ ~ParseDate(endDate).ok
       THEN Ret(NilResult, NewErr(<<"invalid end_date format (use YYYY-MM-DD): ", "parsing time">>))
       ELSE Send(makeRequest(MethodGet,
                             <<"/me/time_entries">>
                             \o (IF startDate # <<>> \/ endDate # <<>>
                                 THEN <<"?">> \o EncodeDates(startDate, endDate) ELSE <<>>),
                             NoBody))

EntryLine(entry) ==
    <<"- ">> \o entry["description"].s \o <<" (ID: ">> \o Itoa(entry["id"].n) \o <<")">>
    \o (IF entry["project_id"].set
        THEN <<" (Project ID: ">> \o Itoa(entry["project_id"].n) \o <<")">> ELSE <<>>)
    \o <<" ">> \o formatDuration(entry["duration"].n) \o <<"\n">>

RECURSIVE EntryLines(_)
EntryLines(entries) ==
    IF entries = <<>> THEN <<>> ELSE EntryLine(Head(entries)) \o EntryLines(Tail(entries))

SameDateWarning(startDate) ==
    <<"\n!  LIKELY ISSUE: You used the same date for start_date and end_date!\n",
      "To get entries for ">> \o startDate \o <<", use:\n", "  start_date: ">> \o startDate \o <<"\n">>
    \o (IF ParseDate(startDate).ok
        THEN <<"  end_date: ">> \o FormatDate(AddDay(ParseDate(startDate))) \o <<"\n",
               "OR use the 'get_time_entries_for_day' tool with date: ">> \o startDate \o <<"\n">>
        ELSE <<>>)

\* a text that warns whenever the two dates are equal
GetTimeEntriesTextWarnsWithEntries(entries, startDate, endDate) ==
    <<"Found ">> \o Itoa(Len(entries)) \o <<" time entries:\n">>
    \o (IF startDate # <<>> /\ endDate # <<>> /\ startDate = endDate
        THEN SameDateWarning(startDate) ELSE <<>>)
    \o EntryLines(entries)

GetTimeEntriesText(entries, startDate, endDate) ==
    <<"Found ">> \o Itoa(Len(entries)) \o <<" time entries:\n">>
    \o (IF Len(entries) = 0
        THEN <<"\nNo time entries found. This could be because:\n",
               "- No time entries exist in the specified date range\n",
               "- You need to specify a date range (start_date, end_date)\n",
               "- The default query only returns recent entries\n">>
             \o (IF startDate # <<>> /\ endDate # <<>> /\ startDate = endDate
                 THEN SameDateWarning(startDate) ELSE <<>>)
        ELSE EntryLines(entries))

GetTimeEntriesDecoded(a, resp, d) ==
    Step(IF ~d.err.nil
         THEN IF ErrorsAsAPIError(d.err)
              THEN Ret(NewToolResultError(<<"Failed to get time entries: ">> \o APIErrorString(d.err)), NilErr)
              ELSE Ret(NilResult, Wrap("decoding response: ", d.err))
         ELSE Ret(NewToolResultText(GetTimeEntriesText(d.val,
                                                       getOptionalString(a, "start_date"),
                                                       getOptionalString(a, "end_date"))),
                  NilErr),
         Dec(TimeEntryList, resp, d), NoEntry)

GetTimeEntriesResp(a, ans) ==
    IF ~ans.ok THEN Step(Ret(NilResult, Wrap("getting time entries: ", ExecErr)), NoDec, NoEntry)
    ELSE GetTimeEntriesDecoded(a, ans.resp, decodeResponse(ans.resp, TimeEntryList))

\* an argument map that keeps the end_date the caller gave
ForDayArgsKeepSupplied(a) ==
    LET date == getRequiredString(a, "date") IN
        IF date.err.nil /\ ParseDate(date.val).ok
        THEN [a EXCEPT !["start_date"] = String(date.val),
                       !["end_date"] = IF a["end_date"] = Absent
                                       THEN String(FormatDate(AddDay(ParseDate(date.val))))
                                       ELSE a["end_date"]]
        ELSE a

\* handleGetTimeEntriesForDay: the argument map as it is handed on
ForDayArgs(a) ==
    LET date == getRequiredString(a, "date") IN
        IF date.err.nil /\ ParseDate(date.val).ok
        THEN [a EXCEPT !["start_date"] = String(date.val),
                       !["end_date"] = String(FormatDate(AddDay(ParseDate(date.val))))]
        ELSE a

GetTimeEntriesForDayStart(a) ==
    LET date == getRequiredString(a, "date") IN
        IF ~date.err.nil THEN Ret(NilResult, Wrap("invalid date: ", date.err))
        ELSE IF ~ParseDate(date.val).ok
        THEN Ret(NilResult, NewErr(<<"invalid date format (use YYYY-MM-DD): ", "parsing time">>))
        ELSE GetTimeEntriesStart(ForDayArgs(a))

\* handleCreateProject
CreateProjectStart(a) ==
    LET name        == getRequiredString(a, "name")
        workspaceID == getRequiredNumber(a, "workspace_id")
    IN IF ~name.err.nil THEN Ret(NilResult, Wrap("invalid name: ", name.err))
       ELSE IF ~workspaceID.err.nil THEN Ret(NilResult, Wrap("invalid workspace_id: ", workspaceID.err))
       ELSE Send(makeRequest(MethodPost,
                             <<"/workspaces/">> \o Itoa(workspaceID.val) \o <<"/projects">>,
                             [NoBody EXCEPT !.present = TRUE,
                                            !.name = name.val,
                                            !.active = TRUE,
                                            !.color = getOptionalString(a, "color"),
                                            !.client_id = getOptionalNumber(a, "client_id")]))

\* a handler that returns the text it has together with the decode error
CreateProjectDecodedReturnsBoth(a, resp, d) ==
    Step(IF ~d.err.nil
         THEN IF ErrorsAsAPIError(d.err)
              THEN Ret(NewToolResultError(<<"Failed to create project: ">> \o APIErrorString(d.err)), NilErr)
              ELSE Ret(NewToolResultText(<<"Created project: ">> \o d.val["name"].s),
                       Wrap("decoding response: ", d.err))
         ELSE Ret(NewToolResultText(<<"Created project: ">> \o d.val["name"].s
                                    \o <<" (ID: ">> \o Itoa(d.val["id"].n) \o <<")">>),
                  NilErr),
         Dec(Project, resp, d), NoEntry)

CreateProjectDecoded(a, resp, d) ==
    Step(IF ~d.err.nil
         THEN IF ErrorsAsAPIError(d.err)
              THEN Ret(NewToolResultError(<<"Failed to create project: ">> \o APIErrorString(d.err)), NilErr)
              ELSE Ret(NilResult, Wrap("decoding response: ", d.err))
         ELSE Ret(NewToolResultText(<<"Created project: ">> \o d.val["name"].s
                                    \o <<" (ID: ">> \o Itoa(d.val["id"].n) \o <<")">>),
                  NilErr),
         Dec(Project, resp, d), NoEntry)

CreateProjectResp(a, ans) ==
    IF ~ans.ok THEN Step(Ret(NilResult, Wrap("creating project: ", ExecErr)), NoDec, NoEntry)
    ELSE CreateProjectDecoded(a, ans.resp, decodeResponse(ans.resp, Project))

\* handleGetProjects
GetProjectsStart(a) ==
    LET workspaceID == getRequiredNumber(a, "workspace_id") IN
        IF ~workspaceID.err.nil THEN Ret(NilResult, Wrap("invalid workspace_id: ", workspaceID.err))
        ELSE Send(makeRequest(MethodGet,
                              <<"/workspaces/">> \o Itoa(workspaceID.val) \o <<"/projects">>
                              \o (IF IsBool(a["active"])
                                  THEN <<"?", "active=", IF a["active"].b THEN "true" ELSE "false">>
                                  ELSE <<>>),
                              NoBody))

ProjectLine(project) ==
    <<"- ">> \o project["name"].s \o <<" (ID: ">> \o Itoa(project["id"].n) \o <<", ",
      IF project["active"].b THEN "active" ELSE "inactive", ")\n">>

RECURSIVE ProjectLines(_)
ProjectLines(projects) ==
    IF projects = <<>> THEN <<>> ELSE ProjectLine(Head(projects)) \o ProjectLines(Tail(projects))

\* a handler that turns every error of decodeResponse into a flagged result
GetProjectsDecodedFlagsEveryError(a, resp, d) ==
    Step(IF ~d.err.nil
         THEN Ret(NewToolResultError(<<"Failed to get projects: ">> \o d.err.msg), NilErr)
         ELSE Ret(NewToolResultText(<<"Found ">> \o Itoa(Len(d.val)) \o <<" projects:\n">>
                                    \o ProjectLines(d.val)),
                  NilErr),
         Dec(ProjectList, resp, d), NoEntry)

GetProjectsDecoded(a, resp, d) ==
    Step(IF ~d.err.nil
         THEN IF ErrorsAsAPIError(d.err)
              THEN Ret(NewToolResultError(<<"Failed to get projects: ">> \o APIErrorString(d.err)), NilErr)
              ELSE Ret(NilResult, Wrap("decoding response: ", d.err))
         ELSE Ret(NewToolResultText(<<"Found ">> \o Itoa(Len(d.val)) \o <<" projects:\n">>
                                    \o ProjectLines(d.val)),
                  NilErr),
         Dec(ProjectList, resp, d), NoEntry)

GetProjectsResp(a, ans) ==
    IF ~ans.ok THEN Step(Ret(NilResult, Wrap("getting projects: ", ExecErr)), NoDec, NoEntry)
    ELSE GetProjectsDecoded(a, ans.resp, decodeResponse(ans.resp, ProjectList))

----------------------------------------------------------------------------
(* Inputs *)

\* number of entries in a list body
MaxEntries == 2
\* float64 arguments of the helper calls range over -MaxTenths..MaxTenths tenths
MaxTenths == 15

Keys == {"description", "workspace_id", "project_id", "start_date", "end_date",
         "date", "name", "color", "client_id", "active"}
NoArgs == [k \in Keys |-> Absent]

ReqNumVals == {Absent, Null, Number(0), Number(427), String(<<"4">>), GoInt(4)}
ReqStrVals == {Absent, Null, String(<<>>), String(<<"a">>), String(<<" ", "a", " ">>),
               Number(10), Bool(TRUE)}
OptNumVals == {Absent, Null, Number(0), Number(-59), String(<<"7">>)}
OptStrVals == {Absent, String(<<>>), String(<<"#", "f">>), Number(10)}
ActiveVals == {Absent, Null, Bool(TRUE), Bool(FALSE), String(<<"true">>), Number(10)}

\* well-formed dates (some of no calendar day) and malformed ones
DateStrings ==
    {FormatDate([ok |-> TRUE, y |-> y, m |-> md[1], d |-> md[2]]) :
        y \in {2024, 2025}, md \in {<<1, 15>>, <<1, 31>>, <<2, 28>>, <<2, 29>>, <<2, 30>>, <<4, 30>>, <<12, 31>>}}
    \cup {<<"9", "9", "9", "9", "-", "1", "2", "-", "3", "1">>,
          <<"1", "5", "-", "0", "1", "-", "2", "0", "2", "5">>,
          <<"2", "0", "2", "5", "-", "1", "-", "1", "5">>}
DateVals == {String(d) : d \in DateStrings} \cup {Absent, Null, String(<<>>), Number(10)}

EntryObject ==
    <<"{", "\"id\":", "7", ",", " ", "\"description\":", "\"Task\"", ",", " ",
      "\"name\":", "\"Task\"", ",", "\"duration\":", "60", ",", "\"active\":", "true", "}">>

RECURSIVE Objects(_)
Objects(n) ==
    IF n = 0 THEN <<>>
    ELSE IF n = 1 THEN EntryObject
    ELSE EntryObject \o <<",">> \o Objects(n - 1)

Bodies ==
    {<<"[">> \o Objects(n) \o <<"]">> : n \in 0..MaxEntries}
    \cup {<<>>,
          <<"{", "}">>,
          EntryObject,
          <<"{", "\"id\":", "7", ",", "\"description\":", "7", "}">>,
          <<"[", "{", "\"id\":", "7", ",", "\"name\":", "7", ",", "\"description\":", "7", "}", "]">>,
          <<"{", "\"id\":", "7", ",", "}">>,
          <<"{", "broken json">>,
          <<"\"Task\"">>,
          <<"null">>,
          <<"{", "\"error\":", " ", "\"Bad Request\"", "}">>,
          <<"Unauthorized">>}

Statuses == {199, 200, 299, 300, 401, 404, 500}

\* what the transport answers: an error of c.client.Do, or a response whose
\* body can be read, or a response whose body fails while it is read
\* (cause: why c.client.Do failed; the caller's context is one of the reasons)
DoErrors == {"context canceled", "context deadline exceeded", "connection refused"}
Answers ==
    {[ok |-> FALSE, cause |-> c, resp |-> Response(0, <<>>, TRUE)] : c \in DoErrors}
    \cup {[ok |-> TRUE, cause |-> "", resp |-> Response(st, b, TRUE)] :
              st \in Statuses, b \in Bodies}
    \cup {[ok |-> TRUE, cause |-> "", resp |-> Response(st, <<"{">>, FALSE)] : st \in Statuses}

ExtKeys == {"workspace_id", "description"}
ExtVals ==
    {Absent, Null, String(<<>>), String(<<"a">>), String(<<" ", "a", " ">>), String(<<"4">>),
     GoInt(4), Bool(TRUE), Bool(FALSE)}
    \cup {Number(x) : x \in (-MaxTenths)..MaxTenths}
    \cup {Number(427), Number(-59), Number(1000), Number(-1000)}
NoExt == [called |-> FALSE, params |-> [k \in ExtKeys |-> Absent], key |-> "",
          reqNum |-> getRequiredNumber([k \in ExtKeys |-> Absent], "workspace_id"),
          optNum |-> getOptionalNumber([k \in ExtKeys |-> Absent], "workspace_id"),
          reqStr |-> getRequiredString([k \in ExtKeys |-> Absent], "workspace_id"),
          optStr |-> <<>>]

\* formatDuration is called on every whole number of seconds from -3 to
\* MaxSeconds, and on some larger ones
MaxSeconds == 3700
DurationVals == ((-3)..MaxSeconds) \cup {86399, 86400, 90061, 360000}
NoDur == [called |-> FALSE, seconds |-> 0, text |-> <<>>]

\* the constructions the handlers run on: the one of main, and one with
\* every option
Tokens == {"test-token", "integration-token"}
HTTPClients == {HTTPClient("custom", 0), HTTPClient("custom5", 5)}
Loggers == {"jsonLogger", "customLogger"}
Timeouts == {15}
Options ==
    {WithHTTPClient(c) : c \in HTTPClients} \cup {WithLogger(l) : l \in Loggers}
    \cup {WithTimeout(t) : t \in Timeouts}
Constructions ==
    {<<"integration-token", <<WithLogger("jsonLogger")>> >>,
     <<"test-token", <<WithHTTPClient(HTTPClient("custom", 0)), WithLogger("customLogger"),
                       WithTimeout(15)>> >>}

\* makeRequest taken by itself: the endpoints it is given (the last three
\* cannot be made into a URL) and the bodies
MrMethods == {MethodGet, MethodPost, MethodPatch}
MrEndpoints ==
    {<<"/me">>, <<"/workspaces/", "0", "/time_entries">>,
     <<"\\x00">>, <<"/me/", "\n">>, <<"/me/", "%zz">>}
MrBodies == {NoBody, [NoBody EXCEPT !.present = TRUE, !.description = <<"Task">>]}
NoMr == [called |-> FALSE, method |-> "", endpoint |-> <<>>, body |-> NoBody,
         ans |-> [ok |-> FALSE, cause |-> "", resp |-> Response(0, <<>>, TRUE)],
         out |-> [hasResp |-> FALSE, resp |-> Response(0, <<>>, TRUE), err |-> NilErr,
                  sent |-> <<>>, log |-> <<>>]]

\* errors.Is: the *APIError lives at address 1; the targets are the
\* sentinels, nil, errors made elsewhere (one with the text of ErrAPIRequest),
\* the error itself, and another *APIError with the same fields
ErrBodies == {<<>>, <<"Unauthorized">>}
IsTargets(status, body) ==
    {Sentinel(n) : n \in Sentinels}
    \cup {NilError, ErrorsNew("API request failed"), ErrorsNew("boom")}
    \cup {APIErrorAt(ptr, status, body) : ptr \in {1, 2}}
NoEis == [called |-> FALSE, err |-> NilError, target |-> NilError, is |-> FALSE]

\* the environments main starts in
Envs == {Unset, EnvSet(""), EnvSet("integration-token")}

\* number of invocations running at the same time
MaxInvocations == 2
Invocations == 1..MaxInvocations
NoInv == [pc |-> "idle", tool |-> "", step |-> 0, args |-> NoArgs, requests |-> <<>>,
          responses |-> <<>>, current |-> NoEntry, result |-> NilResult, err |-> NilErr]
NoInvs == [i \in Invocations |-> NoInv]

----------------------------------------------------------------------------
(* The state machine *)

Init ==
    /\ pc = "idle"
    /\ tool = ""
    /\ step = 0
    /\ args = NoArgs
    /\ requests = <<>>
    /\ responses = <<>>
    /\ current = NoEntry
    /\ result = NilResult
    /\ err = NilErr
    /\ dec = NoDec
    /\ ext = NoExt
    /\ dur = NoDur
    /\ \E k \in Constructions :
           /\ opts = k[2]
           /\ client = NewTogglClient(k[1], k[2])
    /\ inv = NoInvs
    /\ closed = <<>>
    /\ mr = NoMr
    /\ eis = NoEis
    /\ proc = NoProc

\* a handler is invoked with argument map a (a2 is the map as the handler leaves it)
Begin(t, a2, out) ==
    /\ tool' = t
    /\ args' = a2
    /\ result' = out.res
    /\ err' = out.err
    /\ IF out.k = "send"
       THEN pc' = "await" /\ requests' = <<Do(client, out.req)>> /\ step' = 1
       ELSE pc' = "done" /\ requests' = <<>> /\ step' = 0
    /\ UNCHANGED <<responses, current, dec, ext, dur, client, opts, inv, closed, mr, eis, proc>>

\* the transport answers the request in flight and the handler runs on
Continue(t, n, ans, o) ==
    /\ tool = t
    /\ step = n
    /\ responses' = Append(responses, ans)
    /\ dec' = IF o.dec.called THEN o.dec ELSE dec
    /\ current' = o.cur
    /\ result' = o.s.res
    /\ err' = o.s.err
    /\ IF o.s.k = "send"
       THEN pc' = "await" /\ requests' = Append(requests, Do(client, o.s.req))
            /\ step' = step + 1
       ELSE pc' = "done" /\ UNCHANGED <<requests, step>>
    /\ closed' = Append(closed, o.dec.closes)
    /\ UNCHANGED <<tool, args, ext, dur, client, opts, inv, mr, eis, proc>>

handleTestConnection ==
    /\ pc = "idle"
    /\ Begin("test_connection", NoArgs, TestConnectionStart(NoArgs))
handleTestConnectionResp ==
    /\ pc = "await"
    /\ \E ans \in Answers :
           Continue("test_connection", 1, ans, TestConnectionResp(args, ans))

handleStartTimeEntry ==
    /\ pc = "idle"
    /\ \E d \in ReqStrVals, w \in ReqNumVals, p \in OptNumVals :
           LET a == [NoArgs EXCEPT !["description"] = d, !["workspace_id"] = w, !["project_id"] = p]
           IN Begin("start_time_entry", a, StartTimeEntryStart(a))
handleStartTimeEntryResp ==
    /\ pc = "await"
    /\ \E ans \in Answers :
           Continue("start_time_entry", 1, ans, StartTimeEntryResp(args, ans))

handleStopTimeEntry ==
    /\ pc = "idle"
    /\ \E w \in ReqNumVals :
           LET a == [NoArgs EXCEPT !["workspace_id"] = w]
           IN Begin("stop_time_entry", a, StopTimeEntryStart(a))
handleStopTimeEntryLookupResp ==
    /\ pc = "await"
    /\ \E ans \in Answers :
           Continue("stop_time_entry", 1, ans, StopTimeEntryLookupResp(args, ans))
handleStopTimeEntryStopResp ==
    /\ pc = "await"
    /\ \E ans \in Answers :
           Continue("stop_time_entry", 2, ans, StopTimeEntryStopResp(args, current, ans))

handleGetCurrentTimeEntry ==
    /\ pc = "idle"
    /\ Begin("get_current_time_entry", NoArgs, GetCurrentTimeEntryStart(NoArgs))
handleGetCurrentTimeEntryResp ==
    /\ pc = "await"
    /\ \E ans \in Answers :
           Continue("get_current_time_entry", 1, ans, GetCurrentTimeEntryResp(args, ans))

handleGetTimeEntries ==
    /\ pc = "idle"
    /\ \E sd \in DateVals, ed \in DateVals :
           LET a == [NoArgs EXCEPT !["start_date"] = sd, !["end_date"] = ed]
           IN Begin("get_time_entries", a, GetTimeEntriesStart(a))
handleGetTimeEntriesResp ==
    /\ pc = "await"
    /\ \E ans \in Answers :
           \/ Continue("get_time_entries", 1, ans, GetTimeEntriesResp(args, ans))
           \/ Continue("get_time_entries_for_day", 1, ans, GetTimeEntriesResp(args, ans))

handleGetTimeEntriesForDay ==
    /\ pc = "idle"
    /\ \E dt \in DateVals, sd \in {Absent, Number(10), String(<<"x">>)} :
           LET a == [NoArgs EXCEPT !["date"] = dt, !["start_date"] = sd, !["end_date"] = sd]
           IN Begin("get_time_entries_for_day", ForDayArgs(a),
                                   GetTimeEntriesForDayStart(a))

handleCreateProject ==
    /\ pc = "idle"
    /\ \E nm \in ReqStrVals, w \in ReqNumVals, c \in OptStrVals, ci \in OptNumVals :
           LET a == [NoArgs EXCEPT !["name"] = nm, !["workspace_id"] = w,
                                   !["color"] = c, !["client_id"] = ci]
           IN Begin("create_project", a, CreateProjectStart(a))
handleCreateProjectResp ==
    /\ pc = "await"
    /\ \E ans \in Answers :
           Continue("create_project", 1, ans, CreateProjectResp(args, ans))

handleGetProjects ==
    /\ pc = "idle"
    /\ \E w \in ReqNumVals, ac \in ActiveVals :
           LET a == [NoArgs EXCEPT !["workspace_id"] = w, !["active"] = ac]
           IN Begin("get_projects", a, GetProjectsStart(a))
handleGetProjectsResp ==
    /\ pc = "await"
    /\ \E ans \in Answers :
           Continue("get_projects", 1, ans, GetProjectsResp(args, ans))

\* the four helpers applied to one map and key
ExtractParam ==
    /\ pc = "idle"
    /\ \E m \in [ExtKeys -> ExtVals], key \in ExtKeys :
        /\ pc' = "done"
        /\ tool' = "extract"
        /\ ext' = [called |-> TRUE, params |-> m, key |-> key,
                   reqNum |-> getRequiredNumber(m, key),
                   optNum |-> getOptionalNumber(m, key),
                   reqStr |-> getRequiredString(m, key),
                   optStr |-> getOptionalString(m, key)]
        /\ UNCHANGED <<step, args, requests, responses, current, result, err, dec,
                       dur, client, opts, inv, closed, mr, eis, proc>>

\* formatDuration applied to a number of seconds
FormatDuration ==
    /\ pc = "idle"
    /\ \E seconds \in DurationVals :
        /\ pc' = "done"
        /\ tool' = "format"
        /\ dur' = [called |-> TRUE, seconds |-> seconds, text |-> formatDuration(seconds)]
        /\ UNCHANGED <<step, args, requests, responses, current, result, err, dec, ext,
                       client, opts, inv, closed, mr, eis, proc>>

\* makeRequest applied to one method, endpoint and body, with the answer the
\* transport gives if it is asked
CallMakeRequest ==
    /\ pc = "idle"
    /\ \E method \in MrMethods, endpoint \in MrEndpoints, body \in MrBodies, ans \in Answers :
        /\ pc' = "done"
        /\ tool' = "makeRequest"
        /\ mr' = [called |-> TRUE, method |-> method, endpoint |-> endpoint, body |-> body,
                  ans |-> ans,
                  out |-> makeRequestReturns(client, method, endpoint, body, ans)]
        /\ UNCHANGED <<step, args, requests, responses, current, result, err, dec, ext, dur,
                       client, opts, inv, closed, eis, proc>>

\* errors.Is applied to an *APIError and a target
CallErrorsIs ==
    /\ pc = "idle"
    /\ \E status \in Statuses, body \in ErrBodies :
        \E target \in IsTargets(status, body) :
        /\ pc' = "done"
        /\ tool' = "errors.Is"
        /\ eis' = [called |-> TRUE, err |-> APIErrorAt(1, status, body), target |-> target,
                   is |-> ErrorsIs(APIErrorAt(1, status, body), target)]
        /\ UNCHANGED <<step, args, requests, responses, current, result, err, dec, ext, dur,
                       client, opts, inv, closed, mr, proc>>

\* the call has returned; the next one starts from a clean slate
NextCall ==
    /\ pc = "done"
    /\ pc' = "idle"
    /\ tool' = ""
    /\ step' = 0
    /\ args' = NoArgs
    /\ requests' = <<>>
    /\ responses' = <<>>
    /\ current' = NoEntry
    /\ result' = NilResult
    /\ err' = NilErr
    /\ dec' = NoDec
    /\ ext' = NoExt
    /\ dur' = NoDur
    /\ closed' = <<>>
    /\ mr' = NoMr
    /\ eis' = NoEis
    /\ UNCHANGED <<client, opts, inv, proc>>

Next ==
    \/ handleTestConnection \/ handleTestConnectionResp
    \/ handleStartTimeEntry \/ handleStartTimeEntryResp
    \/ handleStopTimeEntry \/ handleStopTimeEntryLookupResp \/ handleStopTimeEntryStopResp
    \/ handleGetCurrentTimeEntry \/ handleGetCurrentTimeEntryResp
    \/ handleGetTimeEntries \/ handleGetTimeEntriesResp
    \/ handleGetTimeEntriesForDay
    \/ handleCreateProject \/ handleCreateProjectResp
    \/ handleGetProjects \/ handleGetProjectsResp
    \/ ExtractParam
    \/ FormatDuration
    \/ CallMakeRequest
    \/ CallErrorsIs
    \/ NextCall

Spec == Init /\ [][Next]_vars

----------------------------------------------------------------------------
(* The process: main from its first line to its exit, with the handlers     *)
(* running while server.ServeStdio serves                                    *)

InitMain ==
    /\ pc = "main"
    /\ tool = ""
    /\ step = 0
    /\ args = NoArgs
    /\ requests = <<>>
    /\ responses = <<>>
    /\ current = NoEntry
    /\ result = NilResult
    /\ err = NilErr
    /\ dec = NoDec
    /\ ext = NoExt
    /\ dur = NoDur
    /\ opts = <<>>
    /\ client = NoClient
    /\ inv = NoInvs
    /\ closed = <<>>
    /\ mr = NoMr
    /\ eis = NoEis
    /\ \E e \in Envs : proc = [NoProc EXCEPT !.at = "start", !.env = e]

\* os.Exit(code)
Exit(code) == [proc EXCEPT !.at = "exited", !.exited = TRUE, !.code = code]

\* apiToken := os.Getenv("TOGGL_API_TOKEN") and the check of it
mainGetenv ==
    /\ proc.at = "start"
    /\ proc' = IF TokenMissing(Getenv(proc.env)) THEN Exit(1)
               ELSE [proc EXCEPT !.at = "token"]
    /\ UNCHANGED <<pc, tool, step, args, requests, responses, current, result, err, dec, ext,
                   dur, client, opts, inv, closed, mr, eis>>

\* togglClient := app.NewTogglClient(apiToken, app.WithLogger(logger))
mainNewTogglClient ==
    /\ proc.at = "token"
    /\ opts' = <<WithLogger("jsonLogger")>>
    /\ client' = NewTogglClient(Getenv(proc.env), <<WithLogger("jsonLogger")>>)
    /\ proc' = [proc EXCEPT !.at = "client"]
    /\ UNCHANGED <<pc, tool, step, args, requests, responses, current, result, err, dec, ext,
                   dur, inv, closed, mr, eis>>

\* app.SetupTools(s, togglClient) on the new server
mainSetupTools ==
    /\ proc.at = "client"
    /\ proc' = IF ~SetupTools.err.nil THEN [Exit(1) EXCEPT !.tools = SetupTools.tools]
               ELSE [proc EXCEPT !.at = "tools", !.tools = SetupTools.tools]
    /\ UNCHANGED <<pc, tool, step, args, requests, responses, current, result, err, dec, ext,
                   dur, client, opts, inv, closed, mr, eis>>

\* server.ServeStdio(s) is called: the handlers can be invoked
mainServeStdio ==
    /\ proc.at = "tools"
    /\ proc' = [proc EXCEPT !.at = "serving", !.served = TRUE]
    /\ pc' = "idle"
    /\ UNCHANGED <<tool, step, args, requests, responses, current, result, err, dec, ext,
                   dur, client, opts, inv, closed, mr, eis>>

\* server.ServeStdio returns e and main runs to its end
mainServeReturns ==
    /\ proc.at = "serving"
    /\ \E e \in ServeErrors :
           proc' = IF ~e.nil /\ ~IsContextCanceled(e) THEN Exit(1) ELSE Exit(0)
    /\ pc' = "stopped"
    /\ UNCHANGED <<tool, step, args, requests, responses, current, result, err, dec, ext,
                   dur, client, opts, inv, closed, mr, eis>>

NextMain ==
    \/ mainGetenv \/ mainNewTogglClient \/ mainSetupTools \/ mainServeStdio
    \/ mainServeReturns
    \/ handleTestConnection \/ handleTestConnectionResp
    \/ handleStartTimeEntry \/ handleStartTimeEntryResp
    \/ handleStopTimeEntry \/ handleStopTimeEntryLookupResp \/ handleStopTimeEntryStopResp
    \/ handleGetCurrentTimeEntry \/ handleGetCurrentTimeEntryResp
    \/ handleGetTimeEntries \/ handleGetTimeEntriesResp
    \/ handleGetTimeEntriesForDay
    \/ handleCreateProject \/ handleCreateProjectResp
    \/ handleGetProjects \/ handleGetProjectsResp
    \/ NextCall

SpecMain == InitMain /\ [][NextMain]_vars

----------------------------------------------------------------------------
(* Construction of the client: NewTogglClient called with a token and a     *)
(* sequence of options                                                      *)

\* longest sequence of options
MaxOptions == 3

InitNew ==
    /\ pc = "new"
    /\ tool = ""
    /\ step = 0
    /\ args = NoArgs
    /\ requests = <<>>
    /\ responses = <<>>
    /\ current = NoEntry
    /\ result = NilResult
    /\ err = NilErr
    /\ dec = NoDec
    /\ ext = NoExt
    /\ dur = NoDur
    /\ opts = <<>>
    /\ client = NoClient
    /\ inv = NoInvs
    /\ closed = <<>>
    /\ mr = NoMr
    /\ eis = NoEis
    /\ proc = NoProc

\* the caller writes one more option into the call
AddOption ==
    /\ pc = "new"
    /\ Len(opts) < MaxOptions
    /\ \E o \in Options : opts' = Append(opts, o)
    /\ UNCHANGED <<pc, tool, step, args, requests, responses, current, result, err, dec, ext,
                   dur, client, inv, closed, mr, eis, proc>>

\* NewTogglClient(apiToken, opts...)
Construct ==
    /\ pc = "new"
    /\ \E apiToken \in Tokens : client' = NewTogglClient(apiToken, opts)
    /\ pc' = "constructed"
    /\ UNCHANGED <<tool, step, args, requests, responses, current, result, err, dec, ext,
                   dur, opts, inv, closed, mr, eis, proc>>

NextNew == AddOption \/ Construct

SpecNew == InitNew /\ [][NextNew]_vars

----------------------------------------------------------------------------
(* Concurrent invocations: the host calls the registered handlers in        *)
(* parallel; each call has its own context and request and all share the    *)
(* one *TogglClient.                                                        *)

\* the handler registered for tool t, up to its first makeRequest
StartOf(t, a) ==
    CASE t = "test_connection" -> TestConnectionStart(a)
      [] t = "start_time_entry" -> StartTimeEntryStart(a)
      [] t = "stop_time_entry" -> StopTimeEntryStart(a)
      [] t = "get_current_time_entry" -> GetCurrentTimeEntryStart(a)
      [] t = "get_time_entries" -> GetTimeEntriesStart(a)
      [] t = "get_time_entries_for_day" -> GetTimeEntriesForDayStart(a)
      [] t = "create_project" -> CreateProjectStart(a)
      [] t = "get_projects" -> GetProjectsStart(a)

\* the handler registered for tool t, from the answer to its n-th request on
RespOf(t, n, a, cur, ans) ==
    CASE t = "test_connection" -> TestConnectionResp(a, ans)
      [] t = "start_time_entry" -> StartTimeEntryResp(a, ans)
      [] t = "stop_time_entry" /\ n = 1 -> StopTimeEntryLookupResp(a, ans)
      [] t = "stop_time_entry" /\ n # 1 -> StopTimeEntryStopResp(a, cur, ans)
      [] t = "get_current_time_entry" -> GetCurrentTimeEntryResp(a, ans)
      [] t \in {"get_time_entries", "get_time_entries_for_day"} -> GetTimeEntriesResp(a, ans)
      [] t = "create_project" -> CreateProjectResp(a, ans)
      [] t = "get_projects" -> GetProjectsResp(a, ans)

\* the locals of an invocation of tool t with arguments a on client c, at its
\* first blocking point or at its return (out is what the handler did)
InvokedWith(c, t, a, out) ==
    [pc |-> IF out.k = "send" THEN "await" ELSE "done",
     tool |-> t,
     step |-> IF out.k = "send" THEN 1 ELSE 0,
     args |-> IF t = "get_time_entries_for_day" THEN ForDayArgs(a) ELSE a,
     requests |-> IF out.k = "send" THEN <<Do(c, out.req)>> ELSE <<>>,
     responses |-> <<>>,
     current |-> NoEntry,
     result |-> out.res,
     err |-> out.err]
Invoked(c, t, a) == InvokedWith(c, t, a, StartOf(t, a))

\* the locals of the invocation r after the transport answered its request
AnsweredWith(c, r, ans, o) ==
    [pc |-> IF o.s.k = "send" THEN "await" ELSE "done",
     tool |-> r.tool,
     step |-> IF o.s.k = "send" THEN r.step + 1 ELSE r.step,
     args |-> r.args,
     requests |-> IF o.s.k = "send" THEN Append(r.requests, Do(c, o.s.req)) ELSE r.requests,
     responses |-> Append(r.responses, ans),
     current |-> o.cur,
     result |-> o.s.res,
     err |-> o.s.err]
Answered(c, r, ans) == AnsweredWith(c, r, ans, RespOf(r.tool, r.step, r.args, r.current, ans))

\* locals that all invocations have in common
ServeShared(invs, i, r) == [j \in DOMAIN invs |-> r]

\* an invocation runs on its own locals: the step of invocation i writes r
\* into the locals of i
Serve(invs, i, r) == [invs EXCEPT ![i] = r]

ConcCalls ==
    {<<"test_connection", NoArgs>>,
     <<"stop_time_entry", [NoArgs EXCEPT !["workspace_id"] = Number(427)]>>,
     <<"get_time_entries_for_day",
       [NoArgs EXCEPT !["date"] = String(<<"2", "0", "2", "5", "-", "0", "1", "-", "1", "5">>)]>>,
     <<"start_time_entry", [NoArgs EXCEPT !["description"] = String(<<"a">>)]>>}
ConcAnswers ==
    {ans \in Answers :
        \/ ~ans.ok /\ ans.cause = "context canceled"
        \/ /\ ans.ok /\ ans.resp.readOK
           /\ ans.resp.status \in {200, 404}
           /\ ans.resp.body \in {EntryObject, <<>>}}

InitConc ==
    /\ pc = "conc"
    /\ tool = ""
    /\ step = 0
    /\ args = NoArgs
    /\ requests = <<>>
    /\ responses = <<>>
    /\ current = NoEntry
    /\ result = NilResult
    /\ err = NilErr
    /\ dec = NoDec
    /\ ext = NoExt
    /\ dur = NoDur
    /\ \E k \in Constructions :
           /\ opts = k[2]
           /\ client = NewTogglClient(k[1], k[2])
    /\ inv = NoInvs
    /\ closed = <<>>
    /\ mr = NoMr
    /\ eis = NoEis
    /\ proc = NoProc

\* the host calls a handler
Invoke(i) ==
    /\ pc = "conc"
    /\ inv[i].pc = "idle"
    /\ \E call \in ConcCalls : inv' = Serve(inv, i, Invoked(client, call[1], call[2]))
    /\ UNCHANGED <<pc, tool, step, args, requests, responses, current, result, err, dec, ext,
                   dur, client, opts, closed, mr, eis, proc>>

\* the transport answers the request of an invocation, which runs on
Answer(i) ==
    /\ pc = "conc"
    /\ inv[i].pc = "await"
    /\ \E ans \in ConcAnswers : inv' = Serve(inv, i, Answered(client, inv[i], ans))
    /\ UNCHANGED <<pc, tool, step, args, requests, responses, current, result, err, dec, ext,
                   dur, client, opts, closed, mr, eis, proc>>

\* the result is with the host; the invocation is over
Return(i) ==
    /\ pc = "conc"
    /\ inv[i].pc = "done"
    /\ inv' = Serve(inv, i, NoInv)
    /\ UNCHANGED <<pc, tool, step, args, requests, responses, current, result, err, dec, ext,
                   dur, client, opts, closed, mr, eis, proc>>

NextConc == \E i \in Invocations : Invoke(i) \/ Answer(i) \/ Return(i)

SpecConc == InitConc /\ [][NextConc]_vars

----------------------------------------------------------------------------
(* Properties *)

HandlerTools == {"test_connection", "start_time_entry", "stop_time_entry",
                 "get_current_time_entry", "get_time_entries",
                 "get_time_entries_for_day", "create_project", "get_projects"}
CurrentEntryTools == {"stop_time_entry", "get_current_time_entry"}

Returned == pc = "done" /\ tool \in HandlerTools
LastAnswer == responses[Len(responses)]
Is2xx(status) == status >= 200 /\ status < 300

\* the answer that ended the call is a readable non-2xx response, and it is not
\* the 404 of the current-entry lookup
EndedByAPIError ==
    /\ Returned
    /\ Len(responses) > 0
    /\ LastAnswer.ok
    /\ LastAnswer.resp.readOK
    /\ ~Is2xx(LastAnswer.resp.status)
    /\ ~(tool \in CurrentEntryTools /\ Len(responses) = 1
         /\ LastAnswer.resp.status = StatusNotFound)

FlaggedAPIResult ==
    /\ err.nil
    /\ ~result.nil
    /\ result.IsError
    /\ Contains(result.text, Itoa(LastAnswer.resp.status))
    /\ Contains(result.text, LastAnswer.resp.body)

\* C1: in every handler, for every request it makes, a non-2xx response (other
\* than the 404 of the current-entry lookup) ends the call with a result whose
\* error flag is set and whose text holds the status and the raw body, and with
\* a nil hard error; this includes the lookup request of stop_time_entry.
C1_NonOkResponseIsFlaggedResult == EndedByAPIError => FlaggedAPIResult

\* C2: decodeResponse on a response whose body was read and whose status is
\* outside 200..299 returns an *APIError with that status and with the body
\* unchanged, whatever the body is; for a status in 200..299 it never returns
\* an APIError.
C2_APIErrorKeepsStatusAndBody ==
    dec.called =>
        /\ (dec.resp.readOK /\ ~Is2xx(dec.resp.status)) =>
               /\ ErrorsAsAPIError(dec.err)
               /\ dec.err.status = dec.resp.status
               /\ dec.err.body = dec.resp.body
        /\ Is2xx(dec.resp.status) => ~ErrorsAsAPIError(dec.err)

C2_Witness ==
    /\ dec.called
    /\ dec.resp.status = 401
    /\ dec.resp.body = <<"{", "\"error\":", " ", "\"Bad Request\"", "}">>
    /\ ErrorsAsAPIError(dec.err)

IsReadError(e)   == ~e.nil /\ ~e.api /\ Head(e.msg) = "reading response body: "
IsDecodeError(e) == ~e.nil /\ ~e.api /\ Head(e.msg) = "decoding response: "
\* the body is no JSON document of the expected shape
Unparsable(body, shape) == ~Unmarshal(body, shape, Zero(shape)).err.nil

\* C3: a 2xx response whose body cannot be parsed into the expected shape gives
\* a "decoding response" error that is no APIError (errors.As and errors.Is
\* both fail); body-read error, APIError and decode error exclude each other,
\* each arising from its own kind of response.
C3_DecodeErrorIsNotAPIError ==
    dec.called =>
        /\ (dec.resp.readOK /\ Is2xx(dec.resp.status)
            /\ Unparsable(dec.resp.body, dec.shape)) =>
               /\ IsDecodeError(dec.err)
               /\ ~ErrorsAsAPIError(dec.err)
               /\ ~ErrorsIsErrAPIRequest(dec.err)
        /\ IsReadError(dec.err) <=> ~dec.resp.readOK
        /\ ErrorsAsAPIError(dec.err) <=> (dec.resp.readOK /\ ~Is2xx(dec.resp.status))
        /\ IsDecodeError(dec.err) <=>
               (dec.resp.readOK /\ Is2xx(dec.resp.status)
                /\ Unparsable(dec.resp.body, dec.shape))
        /\ ~(IsReadError(dec.err) /\ ErrorsAsAPIError(dec.err))
        /\ ~(IsReadError(dec.err) /\ IsDecodeError(dec.err))
        /\ ~(ErrorsAsAPIError(dec.err) /\ IsDecodeError(dec.err))

C3_Witness ==
    /\ dec.called
    /\ dec.resp.status = 200
    /\ dec.resp.body = <<"{", "broken json">>
    /\ IsDecodeError(dec.err)

\* C4: whenever decodeResponse returns an error, the value returned with it is
\* the zero value of the target type, also when the body was partly decoded
\* before the failure was found.
C4_ErrorComesWithZeroValue ==
    (dec.called /\ ~dec.err.nil) => dec.val = Zero(dec.shape)

\* C5: when the current-entry lookup is answered 404, stop_time_entry and
\* get_current_time_entry return the text "No running time entry found" with
\* no error flag and a nil hard error, and stop_time_entry sends no PATCH.
C5_NotFoundIsNoRunningEntry ==
    (/\ tool \in CurrentEntryTools
     /\ Len(responses) > 0
     /\ responses[1].ok
     /\ responses[1].resp.status = StatusNotFound) =>
        /\ pc = "done"
        /\ ~result.nil
        /\ result.text = <<"No running time entry found">>
        /\ ~result.IsError
        /\ err.nil
        /\ Len(requests) = 1
        /\ requests[1].method = MethodGet

C5_Witness ==
    /\ pc = "done"
    /\ tool = "stop_time_entry"
    /\ Len(responses) = 1
    /\ responses[1].ok
    /\ responses[1].resp.status = StatusNotFound
    /\ result.text = <<"No running time entry found">>

\* the required-field schema of a tool: each required parameter is there and
\* has the declared type
SchemaOK(t, a) ==
    CASE t = "start_time_entry" -> IsString(a["description"]) /\ IsFloat64(a["workspace_id"])
      [] t = "stop_time_entry" -> IsFloat64(a["workspace_id"])
      [] t = "get_time_entries_for_day" -> IsString(a["date"])
      [] t = "create_project" -> IsString(a["name"]) /\ IsFloat64(a["workspace_id"])
      [] t = "get_projects" -> IsFloat64(a["workspace_id"])
      [] OTHER -> TRUE

NonEmptyString(v) == IsString(v) /\ v.s # <<>>

\* every required parameter is a number, or a non-empty string
RequiredOK(t, a) ==
    CASE t = "start_time_entry" -> NonEmptyString(a["description"]) /\ IsFloat64(a["workspace_id"])
      [] t = "stop_time_entry" -> IsFloat64(a["workspace_id"])
      [] t = "get_time_entries_for_day" -> NonEmptyString(a["date"])
      [] t = "create_project" -> NonEmptyString(a["name"]) /\ IsFloat64(a["workspace_id"])
      [] t = "get_projects" -> IsFloat64(a["workspace_id"])
      [] OTHER -> TRUE

\* YYYY-MM-DD: four digits, two digits, two digits, "-" between
YMDForm(s) ==
    /\ Len(s) = 10
    /\ s[5] = "-" /\ s[8] = "-"
    /\ \A i \in {1, 2, 3, 4, 6, 7, 9, 10} : IsDigit(s[i])

\* the date parameters of a tool
DateKeys(t) ==
    CASE t = "get_time_entries" -> {"start_date", "end_date"}
      [] t = "get_time_entries_for_day" -> {"date"}
      [] OTHER -> {}

\* the last date that YYYY-MM-DD can write
LastDate == <<"9", "9", "9", "9", "-", "1", "2", "-", "3", "1">>

\* every date string given is a calendar date written YYYY-MM-DD (and the
\* day of get_time_entries_for_day has a next day that can be written so)
DatesOK(t, a) ==
    /\ \A k \in DateKeys(t) : NonEmptyString(a[k]) => ParseDate(a[k].s).ok
    /\ t = "get_time_entries_for_day" => a["date"].s # LastDate

WorkspacePath(a, tail) == <<"/workspaces/">> \o Itoa(Trunc(a["workspace_id"].n)) \o tail

\* the method and path documented for the tool's (first) request
Documented(t, a, req) ==
    CASE t = "test_connection" -> req.method = "GET" /\ req.endpoint = <<"/me">>
      [] t = "start_time_entry" ->
            req.method = "POST" /\ req.endpoint = WorkspacePath(a, <<"/time_entries">>)
      [] t \in CurrentEntryTools ->
            req.method = "GET" /\ req.endpoint = <<"/me/time_entries/current">>
      [] t \in {"get_time_entries", "get_time_entries_for_day"} ->
            /\ req.method = "GET"
            /\ Head(req.endpoint) = "/me/time_entries"
            /\ \A k \in {"start_date", "end_date"} :
                   IF NonEmptyString(a[k])
                   THEN Contains(req.endpoint, <<k \o "=">> \o a[k].s)
                   ELSE ~Contains(req.endpoint, <<k \o "=">>)
            /\ (\A k \in {"start_date", "end_date"} : ~NonEmptyString(a[k]))
                   => req.endpoint = <<"/me/time_entries">>
      [] t = "create_project" ->
            req.method = "POST" /\ req.endpoint = WorkspacePath(a, <<"/projects">>)
      [] t = "get_projects" ->
            /\ req.method = "GET"
            /\ SubSeq(req.endpoint, 1, Len(WorkspacePath(a, <<"/projects">>)))
                   = WorkspacePath(a, <<"/projects">>)
            /\ IF IsBool(a["active"])
               THEN Contains(req.endpoint,
                             <<"?", "active=", IF a["active"].b THEN "true" ELSE "false">>)
               ELSE req.endpoint = WorkspacePath(a, <<"/projects">>)

\* the lookup of stop_time_entry was answered 2xx with a body that decodes
LookupDecoded ==
    /\ Len(responses) > 0
    /\ responses[1].ok
    /\ responses[1].resp.readOK
    /\ Is2xx(responses[1].resp.status)
    /\ ~Unparsable(responses[1].resp.body, TimeEntry)

LookedUpID == Unmarshal(responses[1].resp.body, TimeEntry, Zero(TimeEntry)).val["id"].n

\* C6 as claimed: for every parameter map that satisfies the tool's
\* required-field schema the handler issues exactly one request, and
\* stop_time_entry exactly two (GET current, then PATCH .../stop).
C6_ExactlyOneOrTwoRequests ==
    (Returned /\ SchemaOK(tool, args)) =>
        Len(requests) = IF tool = "stop_time_entry" THEN 2 ELSE 1

\* C6 as amended: when the required parameters are valid (a number; a
\* non-empty string) and every date string given is a valid YYYY-MM-DD date
\* (for get_time_entries_for_day one before 9999-12-31),
\* the handler has issued exactly one request when it returns, with the
\* documented method and path; stop_time_entry issues GET
\* /me/time_entries/current and then, exactly when that lookup was answered
\* 2xx with a body that decodes, one PATCH
\* /workspaces/{workspace_id}/time_entries/{id}/stop, and nothing else.
C6_RequestsOfValidCall ==
    (Returned /\ RequiredOK(tool, args) /\ DatesOK(tool, args)) =>
        /\ Len(requests) >= 1
        /\ Documented(tool, args, requests[1])
        /\ Len(requests) = IF tool = "stop_time_entry" /\ LookupDecoded THEN 2 ELSE 1
        /\ Len(requests) = 2 =>
               /\ requests[2].method = "PATCH"
               /\ requests[2].endpoint =
                      WorkspacePath(args, <<"/time_entries/">> \o Itoa(LookedUpID) \o <<"/stop">>)

C6_Witness ==
    /\ Returned
    /\ tool = "stop_time_entry"
    /\ Len(requests) = 2
    /\ Len(responses) = 2
    /\ ~result.nil /\ ~result.IsError
    /\ args["workspace_id"] = Number(427)
    /\ LookedUpID = 7

\* a required parameter is absent, null, of the wrong type or an empty string
BadRequired(t, a) == ~RequiredOK(t, a)

\* C7 as claimed: if a required parameter is absent, null, of the wrong type
\* or (a string) empty, or a date string given to get_time_entries or
\* get_time_entries_for_day is not of the form YYYY-MM-DD, the handler returns
\* a hard error with no result and issues no request.
C7_InvalidParamsAreHardErrors ==
    (/\ Returned
     /\ \/ BadRequired(tool, args)
        \/ \E k \in DateKeys(tool) : IsString(args[k]) /\ ~YMDForm(args[k].s)) =>
        (~err.nil /\ result.nil /\ requests = <<>>)

\* C7 as amended: the same, for a non-empty date string (an empty start_date
\* or end_date counts as not given).
C7_InvalidParamsAreHardErrorsNonEmpty ==
    (/\ pc # "idle"
     /\ tool \in HandlerTools
     /\ \/ BadRequired(tool, args)
        \/ \E k \in DateKeys(tool) : NonEmptyString(args[k]) /\ ~YMDForm(args[k].s)) =>
        (pc = "done" /\ ~err.nil /\ result.nil /\ requests = <<>> /\ responses = <<>>)

C7_Witness ==
    /\ Returned
    /\ tool = "get_time_entries"
    /\ args["start_date"] = Absent
    /\ args["end_date"] = String(<<"1", "5", "-", "0", "1", "-", "2", "0", "2", "5">>)
    /\ ~err.nil
    /\ requests = <<>>

\* the value is there and is not null
Supplied(v) == v.t \notin {"absent", "null"}

\* the optional parameters of a tool, with the type declared for each
OptionalKeys(t) ==
    CASE t = "start_time_entry" -> {<<"project_id", "number">>}
      [] t = "create_project" -> {<<"client_id", "number">>, <<"color", "string">>}
      [] t = "get_time_entries" -> {<<"start_date", "string">>, <<"end_date", "string">>}
      [] t = "get_projects" -> {<<"active", "bool">>}
      [] OTHER -> {}

Mistyped(t, a) == {o \in OptionalKeys(t) : Supplied(a[o[1]]) /\ a[o[1]].t # o[2]}

\* the request does not carry the parameter
Omits(req, k) ==
    CASE k = "project_id" -> ~req.body.project_id.present
      [] k = "client_id" -> ~req.body.client_id.present
      [] k = "color" -> req.body.color = <<>>
      [] OTHER -> ~Contains(req.endpoint, <<k \o "=">>)

\* C8 as claimed: a mistyped optional parameter (project_id, client_id not a
\* number; start_date, end_date, color not a string; active not a boolean)
\* makes the handler return a hard error and issue no request.
C8_MistypedOptionalIsHardError ==
    (Returned /\ Mistyped(tool, args) # {}) => (~err.nil /\ requests = <<>>)

\* C8 as amended: a mistyped optional parameter is no validation error, it is
\* taken as not given: when the required parameters and the date strings are
\* valid, the handler issues its request, and the request does not carry the
\* mistyped parameter.
C8_MistypedOptionalIsIgnored ==
    (/\ pc # "idle"
     /\ tool \in HandlerTools
     /\ RequiredOK(tool, args)
     /\ DatesOK(tool, args)) =>
        \A o \in Mistyped(tool, args) :
            /\ Len(requests) >= 1
            /\ Omits(requests[1], o[1])
            /\ pc = "done" => ~Contains(err.msg, <<o[1]>>)

C8_Witness ==
    /\ Returned
    /\ tool = "start_time_entry"
    /\ args["project_id"] = String(<<"7">>)
    /\ Len(requests) = 1
    /\ ~requests[1].body.project_id.present
    /\ ~result.nil

\* C9: getRequiredNumber and getRequiredString fail exactly when the key is
\* absent, the value is null or of the wrong type, or (getRequiredString) the
\* string is empty; getRequiredNumber accepts zero, getRequiredString returns
\* every non-empty string unchanged.
C9_RequiredHelpers ==
    ext.called =>
        LET v == ext.params[ext.key] IN
            /\ ~ext.reqNum.err.nil <=> v.t \in {"absent", "null", "string", "bool", "int"}
            /\ v = Number(0) => (ext.reqNum.err.nil /\ ext.reqNum.val = 0)
            /\ ~ext.reqStr.err.nil <=>
                   (v.t \in {"absent", "null", "number", "bool", "int"} \/ v = String(<<>>))
            /\ ext.reqStr.err.nil => ext.reqStr.val = v.s

C9_Witness ==
    /\ ext.called
    /\ ext.key = "workspace_id"
    /\ ext.params["workspace_id"] = Number(0)
    /\ ext.params["description"] = String(<<" ", "a", " ">>)
    /\ ext.reqNum.err.nil

\* C10: getOptionalNumber gives a value exactly when the value is a number
\* (zero included) and nothing for a missing key, null or another type;
\* getOptionalString gives the string when the value is one and "" otherwise;
\* getOptionalNumber gives a value exactly when getRequiredNumber succeeds,
\* and the same integer.
C10_OptionalHelpers ==
    ext.called =>
        LET v == ext.params[ext.key] IN
            /\ ext.optNum.present <=> v.t = "number"
            /\ v = Number(0) => (ext.optNum.present /\ ext.optNum.val = 0)
            /\ ext.optStr = IF v.t = "string" THEN v.s ELSE <<>>
            /\ ext.optNum.present <=> ext.reqNum.err.nil
            /\ ext.optNum.present => ext.optNum.val = ext.reqNum.val

C10_Witness ==
    /\ ext.called
    /\ ext.key = "description"
    /\ ext.params["description"] = Number(0)
    /\ ext.optNum.present
    /\ ext.optStr = <<>>

\* decimal digits of a natural number, most significant first
DecimalOf(n) ==
    LET len == IF n < 10 THEN 1 ELSE IF n < 100 THEN 2 ELSE IF n < 1000 THEN 3
               ELSE IF n < 10000 THEN 4 ELSE IF n < 100000 THEN 5 ELSE 6
        pow10 == [k \in 0..5 |-> CASE k = 0 -> 1 [] k = 1 -> 10 [] k = 2 -> 100
                                   [] k = 3 -> 1000 [] k = 4 -> 10000 [] k = 5 -> 100000]
    IN [i \in 1..len |-> DigitChar[((n \div pow10[len - i]) % 10) + 1]]

\* C11: formatDuration gives "[running]" for a negative number of seconds;
\* otherwise, with h, m, s the hours, minutes (below 60) and seconds (below
\* 60) that add up to the number, "[{h}h {m}m {s}s]" when h > 0,
\* "[{m}m {s}s]" when h = 0 and m > 0, "[{s}s]" when both are 0; hours are
\* not capped at 24.
C11_FormatDuration ==
    dur.called =>
        IF dur.seconds < 0 THEN dur.text = <<"[running]">>
        ELSE \E h \in 0..(dur.seconds \div 3600), m \in 0..59, sec \in 0..59 :
                 /\ h * 3600 + m * 60 + sec = dur.seconds
                 /\ h = dur.seconds \div 3600
                 /\ m = (dur.seconds % 3600) \div 60
                 /\ sec = dur.seconds % 60
                 /\ dur.text =
                        IF h > 0
                        THEN <<"[">> \o DecimalOf(h) \o <<"h ">> \o DecimalOf(m) \o <<"m ">>
                             \o DecimalOf(sec) \o <<"s]">>
                        ELSE IF m > 0
                        THEN <<"[">> \o DecimalOf(m) \o <<"m ">> \o DecimalOf(sec) \o <<"s]">>
                        ELSE <<"[">> \o DecimalOf(sec) \o <<"s]">>

C11_Witness ==
    /\ dur.called
    /\ dur.seconds = 90061
    /\ dur.text = <<"[", "2", "5", "h ", "1", "m ", "1", "s]">>

\* the calendar, written out: days before each month of a common year
DaysBeforeMonth == <<0, 31, 59, 90, 120, 151, 181, 212, 243, 273, 304, 334>>
LeapYear(y) == (y % 4 = 0 /\ y % 100 # 0) \/ y % 400 = 0
LastDayOfMonth(y, m) ==
    IF m = 2 THEN (IF LeapYear(y) THEN 29 ELSE 28)
    ELSE IF m \in {4, 6, 9, 11} THEN 30 ELSE 31
\* the number of the day t, counted from the first day of year 1
DayNumber(t) ==
    365 * (t.y - 1) + ((t.y - 1) \div 4) - ((t.y - 1) \div 100) + ((t.y - 1) \div 400)
    + DaysBeforeMonth[t.m] + (IF LeapYear(t.y) /\ t.m > 2 THEN 1 ELSE 0) + t.d

\* the YYYY-MM-DD date one calendar day after the date written s
NextCalendarDay(s) ==
    LET t == ParseDate(s)
        later == {[t EXCEPT !.d = t.d + 1],
                  [t EXCEPT !.m = (t.m % 12) + 1, !.d = 1],
                  [t EXCEPT !.y = t.y + 1, !.m = 1, !.d = 1]}
    IN FormatDate(CHOOSE u \in later : DayNumber(u) = DayNumber(t) + 1
                                       /\ u.d <= LastDayOfMonth(u.y, u.m))

\* get_time_entries called with start_date = s and end_date = the day after s
RangeOfDay(s) ==
    [NoArgs EXCEPT !["start_date"] = String(s), !["end_date"] = String(NextCalendarDay(s))]

\* C12: for every valid date D and every answer of the server,
\* get_time_entries_for_day(date = D) does what get_time_entries(start_date =
\* D, end_date = D + 1 day) does: it issues the same request (GET
\* /me/time_entries with end_date = D + 1 day and start_date = D) and returns
\* the same result and error, whatever start_date and end_date the caller's
\* argument map held.
C12_ForDayIsGetTimeEntriesOfRange ==
    (/\ tool = "get_time_entries_for_day"
     /\ pc # "idle"
     /\ NonEmptyString(args["date"])
     /\ ParseDate(args["date"].s).ok) =>
        IF GetTimeEntriesStart(RangeOfDay(args["date"].s)).k = "send"
        THEN /\ requests = <<Do(client, GetTimeEntriesStart(RangeOfDay(args["date"].s)).req)>>
             /\ requests[1].method = "GET"
             /\ requests[1].endpoint =
                    <<"/me/time_entries", "?", "end_date=">> \o NextCalendarDay(args["date"].s)
                    \o <<"&", "start_date=">> \o args["date"].s
             /\ pc = "done" =>
                    /\ Len(responses) = 1
                    /\ result = GetTimeEntriesResp(RangeOfDay(args["date"].s), responses[1]).s.res
                    /\ err = GetTimeEntriesResp(RangeOfDay(args["date"].s), responses[1]).s.err
        ELSE /\ pc = "done"
             /\ requests = <<>>
             /\ result = GetTimeEntriesStart(RangeOfDay(args["date"].s)).res
             /\ err = GetTimeEntriesStart(RangeOfDay(args["date"].s)).err

C12_Witness ==
    /\ Returned
    /\ tool = "get_time_entries_for_day"
    /\ args["date"] = String(<<"2", "0", "2", "5", "-", "0", "1", "-", "1", "5">>)
    /\ requests[1].endpoint =
           <<"/me/time_entries", "?", "end_date=", "2", "0", "2", "5", "-", "0", "1", "-", "1", "6",
             "&", "start_date=", "2", "0", "2", "5", "-", "0", "1", "-", "1", "5">>
    /\ ~result.nil /\ ~result.IsError
    /\ Contains(result.text, <<"Found ", "2", " time entries:\n">>)

\* the ten characters that follow the piece p in the text
DateAfter(text, p) ==
    LET i == CHOOSE j \in 1..Len(text) : text[j] = p /\ \A k \in 1..(j - 1) : text[k] # p
    IN SubSeq(text, i + 1, i + 10)

\* the next-day rule: d2 is the date written after the date written d1
IsNextDay(d1, d2) ==
    LET t == ParseDate(d1)
        u == ParseDate(d2)
        last == LastDayOfMonth(t.y, t.m)
    IN /\ YMDForm(d2)
       /\ u.ok
       /\ DayNumber(u) = DayNumber(t) + 1
       /\ t.d < last => (u.y = t.y /\ u.m = t.m /\ u.d = t.d + 1)
       /\ (t.d = last /\ t.m < 12) => (u.y = t.y /\ u.m = t.m + 1 /\ u.d = 1)
       /\ (t.d = 31 /\ t.m = 12) => (u.y = t.y + 1 /\ u.m = 1 /\ u.d = 1)
       /\ (t.m = 2 /\ t.d = 28) =>
              IF LeapYear(t.y) THEN u.m = 2 /\ u.d = 29 ELSE u.m = 3 /\ u.d = 1
       /\ <<u.y, u.m, u.d>> # <<t.y, t.m, t.d>>
       /\ \/ u.y > t.y
          \/ u.y = t.y /\ u.m > t.m
          \/ u.y = t.y /\ u.m = t.m /\ u.d > t.d

SameDatePiece == "\n!  LIKELY ISSUE: You used the same date for start_date and end_date!\n"
HasSameDateWarning == ~result.nil /\ Contains(result.text, <<SameDatePiece>>)

\* C13 as claimed: the end date get_time_entries_for_day sends, and the end
\* date the same-date warning of get_time_entries suggests, is the next
\* calendar day of the date given: the last day of a month rolls to the 1st of
\* the next month, December 31 to January 1 of the next year, February 28 to
\* February 29 in a leap year and to March 1 otherwise; it is always a valid
\* YYYY-MM-DD date strictly later than the date given.
C13_EndDateIsNextCalendarDay ==
    /\ (tool = "get_time_entries_for_day" /\ requests # <<>>) =>
           /\ Len(requests[1].endpoint) = 25
           /\ IsNextDay(args["date"].s, DateAfter(requests[1].endpoint, "end_date="))
    /\ (tool = "get_time_entries" /\ pc = "done" /\ HasSameDateWarning) =>
           /\ Contains(result.text, <<"  end_date: ">>)
           /\ Contains(result.text, <<"  end_date: ">> \o DateAfter(result.text, "  end_date: ")
                                    \o <<"\n">>)
           /\ IsNextDay(args["start_date"].s, DateAfter(result.text, "  end_date: "))

\* C13 as amended: the same for every date given before 9999-12-31 (the day
\* after 9999-12-31 has a five-digit year).
C13_EndDateIsNextCalendarDayBeforeLast ==
    /\ (tool = "get_time_entries_for_day" /\ requests # <<>> /\ args["date"].s # LastDate) =>
           /\ Len(requests[1].endpoint) = 25
           /\ IsNextDay(args["date"].s, DateAfter(requests[1].endpoint, "end_date="))
    /\ (/\ tool = "get_time_entries" /\ pc = "done" /\ HasSameDateWarning
        /\ args["start_date"].s # LastDate) =>
           /\ Contains(result.text, <<"  end_date: ">>)
           /\ Contains(result.text, <<"  end_date: ">> \o DateAfter(result.text, "  end_date: ")
                                    \o <<"\n">>)
           /\ IsNextDay(args["start_date"].s, DateAfter(result.text, "  end_date: "))

C13_Witness ==
    /\ tool = "get_time_entries_for_day"
    /\ requests # <<>>
    /\ args["date"] = String(<<"2", "0", "2", "4", "-", "0", "2", "-", "2", "8">>)
    /\ DateAfter(requests[1].endpoint, "end_date=")
           = <<"2", "0", "2", "4", "-", "0", "2", "-", "2", "9">>

C13_WarningWitness ==
    /\ tool = "get_time_entries"
    /\ pc = "done"
    /\ HasSameDateWarning
    /\ args["start_date"] = String(<<"2", "0", "2", "5", "-", "1", "2", "-", "3", "1">>)
    /\ DateAfter(result.text, "  end_date: ") = <<"2", "0", "2", "6", "-", "0", "1", "-", "0", "1">>

\* the server returned a list of no entries
ZeroEntries == dec.called /\ dec.err.nil /\ dec.val = <<>>

\* C14 as claimed: get_time_entries includes the same-date warning exactly
\* when the server returned zero entries and start_date and end_date are both
\* supplied and equal; get_time_entries_for_day never includes it.
C14_SameDateWarningIffSuppliedEqual ==
    (Returned /\ tool \in {"get_time_entries", "get_time_entries_for_day"}) =>
        (HasSameDateWarning <=>
            /\ tool = "get_time_entries"
            /\ ZeroEntries
            /\ IsString(args["start_date"]) /\ IsString(args["end_date"])
            /\ args["start_date"] = args["end_date"])

\* C14 as amended: the same, with both dates supplied as non-empty strings
\* (two empty strings give no warning); the warning names start_date + 1 day
\* as the end date to use.
C14_SameDateWarningIffNonEmptyEqual ==
    (Returned /\ tool \in {"get_time_entries", "get_time_entries_for_day"}) =>
        /\ HasSameDateWarning <=>
               /\ tool = "get_time_entries"
               /\ ZeroEntries
               /\ NonEmptyString(args["start_date"]) /\ NonEmptyString(args["end_date"])
               /\ args["start_date"] = args["end_date"]
        /\ HasSameDateWarning =>
               Contains(result.text,
                        <<"  end_date: ">> \o NextCalendarDay(args["start_date"].s) \o <<"\n">>)

C14_Witness ==
    /\ Returned
    /\ tool = "get_time_entries"
    /\ HasSameDateWarning
    /\ ZeroEntries
    /\ args["start_date"] = String(<<"2", "0", "2", "5", "-", "0", "1", "-", "1", "5">>)
    /\ Contains(result.text, <<"  end_date: ", "2", "0", "2", "5", "-", "0", "1", "-", "1", "6", "\n">>)

\* C15: every request a handler hands to the transport (both requests of
\* stop_time_entry included, whatever options the client was constructed
\* with) has the header Content-Type: application/json, Basic auth with the
\* client's API token as username and "api_token" as password, and the URL
\* https://api.track.toggl.com/api/v9 followed by the endpoint.
C15_EveryRequestIsAuthenticated ==
    \A i \in 1..Len(requests) :
        /\ requests[i].header.ContentType = "application/json"
        /\ requests[i].auth.username = client.APIToken
        /\ requests[i].auth.username \in Tokens
        /\ requests[i].auth.password = "api_token"
        /\ requests[i].url = <<"https://api.track.toggl.com/api/v9">> \o requests[i].endpoint
        /\ requests[i].endpoint # <<>>

C15_Witness ==
    /\ tool = "stop_time_entry"
    /\ Len(requests) = 2
    /\ opts = <<WithHTTPClient(HTTPClient("custom", 0)), WithLogger("customLogger"), WithTimeout(15)>>
    /\ requests[2].method = "PATCH"
    /\ requests[2].auth = [username |-> "test-token", password |-> "api_token"]
    /\ requests[2].via = HTTPClient("custom", 15)

\* the options of one kind in the call, in order
OptionsOf(kind) == SelectSeq(opts, LAMBDA o : o.opt = kind)
LastOption(kind) == OptionsOf(kind)[Len(OptionsOf(kind))]

\* C16: NewTogglClient applies its options after the defaults and in
\* argument order: each setting (the HTTP client, the logger, the timeout)
\* ends with the value of the last option in the call that sets it, and with
\* its default (default client with a 30 s timeout, default logger) when no
\* option sets it.
C16_LastOptionWins ==
    pc = "constructed" =>
        /\ client.client.id = IF OptionsOf("WithHTTPClient") = <<>> THEN "default"
                              ELSE LastOption("WithHTTPClient").client.id
        /\ client.logger = IF OptionsOf("WithLogger") = <<>> THEN slogDefault
                           ELSE LastOption("WithLogger").logger
        /\ OptionsOf("WithTimeout") # <<>> =>
               client.client.Timeout = LastOption("WithTimeout").timeout
        /\ opts = <<>> => client.client = HTTPClient("default", 30)

\* what the invocation with locals r can do next, given only r, the client
\* and what the host and the transport hand to it
OwnSteps(r) ==
    CASE r.pc = "idle" -> {Invoked(client, call[1], call[2]) : call \in ConcCalls}
      [] r.pc = "await" -> {Answered(client, r, ans) : ans \in ConcAnswers}
      [] r.pc = "done" -> {NoInv}

\* C17: in every interleaving of invocations that share the one client, no
\* step of an invocation changes the client (token, HTTP client and its
\* timeout, logger), the client stays as NewTogglClient made it, and a step
\* of one invocation neither writes the locals of another nor depends on
\* them.
C17_InvocationsLeaveClientAndEachOtherAlone ==
    [][/\ client' = client
       /\ client = NewTogglClient(client.APIToken, opts)
       /\ \A i \in Invocations :
              inv'[i] # inv[i] =>
                  /\ \A j \in Invocations \ {i} : inv'[j] = inv[j]
                  /\ inv'[i] \in OwnSteps(inv[i])]_vars

C17_Witness ==
    /\ pc = "conc"
    /\ inv[1].pc = "await" /\ inv[1].tool = "stop_time_entry" /\ inv[1].step = 2
    /\ inv[2].pc = "done" /\ inv[2].tool = "get_time_entries_for_day"
    /\ ~inv[2].err.nil
    /\ client = NewTogglClient("integration-token", <<WithLogger("jsonLogger")>>)

\* C18: in stop_time_entry, when the lookup has returned the running entry
\* and the PATCH is then answered with a non-2xx status (the entry was stopped
\* or replaced meanwhile), the handler returns the flagged result "Failed to
\* stop time entry: API error (status N): body" with a nil hard error; it has
\* sent the lookup and the PATCH once each and nothing else, and the result
\* is not "Stopped time entry".
C18_FailedStopIsOrdinaryAPIError ==
    (/\ Returned
     /\ tool = "stop_time_entry"
     /\ Len(responses) = 2
     /\ responses[2].ok
     /\ responses[2].resp.readOK
     /\ ~Is2xx(responses[2].resp.status)) =>
        /\ ~result.nil
        /\ result.IsError
        /\ result.text = <<"Failed to stop time entry: ", "API error (status ">>
                         \o DecimalOf(responses[2].resp.status)
                         \o <<"): ">> \o responses[2].resp.body
        /\ ~Contains(result.text, <<"Stopped time entry: ">>)
        /\ err.nil
        /\ Len(requests) = 2
        /\ requests[1].method = "GET"
        /\ requests[2].method = "PATCH"

C18_Witness ==
    /\ Returned
    /\ tool = "stop_time_entry"
    /\ Len(responses) = 2
    /\ responses[1].resp.status = 200
    /\ responses[2].ok
    /\ responses[2].resp.status = 404
    /\ responses[2].resp.readOK
    /\ result.IsError
    /\ LookedUpID = 7

\* the transport did not complete the n-th request: c.client.Do returned the
\* error of the caller's context
Cancelled(n) ==
    /\ Len(responses) >= n
    /\ ~responses[n].ok
    /\ responses[n].cause \in {"context canceled", "context deadline exceeded"}

\* C19: if the caller's context is cancelled, or its deadline passes, before
\* the transport completes a request, the handler returns a hard error (that
\* of makeRequest, wrapped) and no result; in stop_time_entry a cancellation
\* after the lookup succeeded and before the PATCH completes gives a hard
\* error too, never "Stopped time entry".
C19_CancellationIsHardError ==
    (tool \in HandlerTools /\ Len(responses) > 0 /\ Cancelled(Len(responses))) =>
        /\ pc = "done"
        /\ result.nil
        /\ result.text = <<>>
        /\ ~err.nil
        /\ Contains(err.msg, <<"executing request: ">>)
        /\ ~ErrorsAsAPIError(err)
        /\ Len(requests) = Len(responses)

C19_Witness ==
    /\ Returned
    /\ tool = "stop_time_entry"
    /\ Len(responses) = 2
    /\ LookupDecoded
    /\ Cancelled(2)
    /\ responses[2].cause = "context canceled"
    /\ ~err.nil

\* the answer to a request is a failure: a transport error, a body that
\* cannot be read, a non-2xx status or a body that does not decode
FailedAnswer(ans, shape) ==
    \/ ~ans.ok
    \/ ~ans.resp.readOK
    \/ ~Is2xx(ans.resp.status)
    \/ Unparsable(ans.resp.body, shape)

ShapeOf(t) ==
    CASE t = "test_connection" -> UserInfo
      [] t \in {"get_time_entries", "get_time_entries_for_day"} -> TimeEntryList
      [] t = "create_project" -> Project
      [] t = "get_projects" -> ProjectList
      [] OTHER -> TimeEntry

\* C20: no handler retries: within one invocation every request is sent at
\* most once (one request, for stop_time_entry the lookup and then the PATCH),
\* and after a transport error, a non-2xx answer or a decode failure on a
\* request the handler sends no further request before it returns.
C20_NoRetry ==
    tool \in HandlerTools =>
        /\ Len(requests) <= IF tool = "stop_time_entry" THEN 2 ELSE 1
        /\ \A i, j \in 1..Len(requests) :
               i # j => <<requests[i].method, requests[i].endpoint>>
                        # <<requests[j].method, requests[j].endpoint>>
        /\ Len(responses) <= Len(requests)
        /\ Len(requests) <= Len(responses) + 1
        /\ \A i \in 1..Len(responses) :
               FailedAnswer(responses[i], ShapeOf(tool)) =>
                   (pc = "done" /\ Len(requests) = i /\ Len(responses) = i)

C20_Witness ==
    /\ Returned
    /\ tool = "stop_time_entry"
    /\ Len(requests) = 1
    /\ Len(responses) = 1
    /\ responses[1].ok
    /\ responses[1].resp.status = 500
    /\ ~err.nil

----------------------------------------------------------------------------
\* C21: when TOGGL_API_TOKEN is unset or empty, main exits with status 1 and
\* no client is constructed, no tool registered and the server never serves;
\* a client, a registered tool or a serving server implies a non-empty token.
C21_NoStartWithoutToken ==
    /\ (Getenv(proc.env) = "" /\ proc.at # "start")
           => /\ proc.at = "exited" /\ proc.exited /\ proc.code = 1
              /\ client = NoClient
              /\ proc.tools = {}
              /\ ~proc.served
              /\ pc = "main"
    /\ (client # NoClient \/ proc.tools # {} \/ proc.served \/ pc # "main")
           => /\ proc.env.set /\ proc.env.val # ""
              /\ (client # NoClient => client.APIToken = proc.env.val)

\* main has exited for want of a token that is set but empty
C21_Witness ==
    /\ proc.env = EnvSet("") /\ proc.exited /\ proc.code = 1

\* main has exited for want of a token that is not set
C21_UnsetWitness ==
    /\ proc.env = Unset /\ proc.exited /\ proc.code = 1

\* with a token, a handler has answered a call while the server serves
C21_ServingWitness ==
    /\ proc.at = "serving" /\ proc.tools = ToolNames /\ pc = "done" /\ ~result.nil
    /\ client.APIToken = "integration-token"

----------------------------------------------------------------------------
\* C22: in every handler, a 2xx response whose body is read but cannot be
\* decoded into the expected shape (the empty body included) ends the call
\* with a hard error and no result: the error is not nil and no APIError, and
\* there is neither a flagged result nor a success text.
C22_UndecodableBodyIsHardError ==
    \A i \in 1..Len(responses) :
        (/\ tool \in HandlerTools
         /\ responses[i].ok
         /\ responses[i].resp.readOK
         /\ Is2xx(responses[i].resp.status)
         /\ Unparsable(responses[i].resp.body, ShapeOf(tool))) =>
            /\ pc = "done"
            /\ i = Len(responses)
            /\ result.nil
            /\ ~err.nil
            /\ ~ErrorsAsAPIError(err)
            /\ Contains(err.msg, <<"decoding response: ">>)

\* get_projects has returned on a 2xx response with an empty body
C22_Witness ==
    /\ Returned
    /\ tool = "get_projects"
    /\ Len(responses) = 1
    /\ LastAnswer.ok /\ LastAnswer.resp.readOK
    /\ LastAnswer.resp.status = 299
    /\ LastAnswer.resp.body = <<>>
    /\ result.nil /\ ~err.nil

\* stop_time_entry has returned on a PATCH answered 200 with broken JSON
C22_StopWitness ==
    /\ Returned
    /\ tool = "stop_time_entry"
    /\ Len(responses) = 2
    /\ LastAnswer.ok /\ LastAnswer.resp.readOK
    /\ LastAnswer.resp.status = 200
    /\ LastAnswer.resp.body = <<"{", "broken json">>
    /\ result.nil /\ ~err.nil

----------------------------------------------------------------------------
\* the endpoint has a byte no URL may have, or a "%" that begins no escape
CannotBeURL(endpoint) ==
    \E i \in 1..Len(endpoint) : endpoint[i] \in {"\\x00", "\n", "\\x7f", "%zz"}

\* C23: makeRequest returns a "creating request" error, and hands nothing to
\* the transport, when the endpoint cannot be made into a URL; it returns an
\* "executing request" error when the transport fails; both times there is no
\* response and the error is no APIError.  A response of whatever status is
\* returned as it is, with a nil error.
C23_MakeRequestOutcomes ==
    mr.called =>
        IF CannotBeURL(mr.endpoint)
        THEN /\ mr.out.sent = <<>>
             /\ ~mr.out.hasResp
             /\ ~mr.out.err.nil
             /\ Head(mr.out.err.msg) = "creating request: "
             /\ ~ErrorsAsAPIError(mr.out.err)
             /\ ~ErrorsIsErrAPIRequest(mr.out.err)
        ELSE /\ Len(mr.out.sent) = 1
             /\ mr.out.sent[1].method = mr.method
             /\ mr.out.sent[1].url = <<togglAPIBase>> \o mr.endpoint
             /\ IF ~mr.ans.ok
                THEN /\ ~mr.out.hasResp
                     /\ ~mr.out.err.nil
                     /\ Head(mr.out.err.msg) = "executing request: "
                     /\ ~ErrorsAsAPIError(mr.out.err)
                     /\ ~ErrorsIsErrAPIRequest(mr.out.err)
                ELSE /\ mr.out.hasResp
                     /\ mr.out.resp = mr.ans.resp
                     /\ mr.out.err.nil

\* makeRequest was given the endpoint "\x00" and returned without a request
C23_Witness ==
    /\ mr.called
    /\ mr.endpoint = <<"\\x00">>
    /\ mr.out.sent = <<>>
    /\ Head(mr.out.err.msg) = "creating request: "

\* the transport failed on a request makeRequest handed to it
C23_TransportWitness ==
    /\ mr.called
    /\ ~mr.ans.ok
    /\ Len(mr.out.sent) = 1
    /\ Head(mr.out.err.msg) = "executing request: "

\* a response with status 500 came back as a response, with a nil error
C23_StatusWitness ==
    /\ mr.called
    /\ mr.out.hasResp
    /\ mr.out.resp.status = 500
    /\ mr.out.err.nil

----------------------------------------------------------------------------
\* C24 as claimed: for every APIError, whatever its status and body,
\* errors.Is(err, ErrAPIRequest) is true and errors.Is(err, t) is false for
\* every other target t.
C24_IsOnlyErrAPIRequest ==
    eis.called => (eis.is <=> eis.target = ErrAPIRequest)

\* C24, amended: for every APIError, whatever its status and body,
\* errors.Is(err, ErrAPIRequest) is true and errors.Is(err, t) is false for
\* every other target t that is not the error itself (the other sentinels,
\* nil, errors made by errors.New, another APIError with the same fields);
\* errors.Is(err, err) is true.
C24_IsOnlyErrAPIRequestOrItself ==
    eis.called =>
        /\ eis.target # eis.err => (eis.is <=> eis.target = ErrAPIRequest)
        /\ eis.target = eis.err => eis.is

\* errors.Is has said no to another sentinel for an APIError of status 500
C24_Witness ==
    /\ eis.called
    /\ eis.err.status = 500
    /\ eis.target = Sentinel("ErrNoAPIToken")
    /\ ~eis.is

\* errors.Is has said yes to ErrAPIRequest for an APIError of status 401
C24_SentinelWitness ==
    /\ eis.called
    /\ eis.err.status = 401
    /\ eis.err.body = <<"Unauthorized">>
    /\ eis.target = ErrAPIRequest
    /\ eis.is

\* errors.Is has said no to another APIError with the same status and body
C24_OtherAPIErrorWitness ==
    /\ eis.called
    /\ eis.target = APIErrorAt(2, eis.err.status, eis.err.body)
    /\ ~eis.is

----------------------------------------------------------------------------
\* absolute value
Abs(x) == IF x < 0 THEN -x ELSE x

\* r is the float64 v (in tenths) with its fraction discarded: |r| <= |v| < |r| + 1,
\* and r, unless it is 0, has the sign of v
IsTruncationOf(r, v) ==
    /\ 10 * Abs(r) <= Abs(v)
    /\ Abs(v) < 10 * (Abs(r) + 1)
    /\ (r > 0 => v > 0)
    /\ (r < 0 => v < 0)

\* C25: getRequiredNumber and getOptionalNumber convert a float64 by
\* truncation toward zero: the result r of a value v has |r| <= |v| < |r| + 1
\* and the sign of v (42.7 gives 42, -5.9 gives -5, -0.5 gives 0).
C25_TruncationTowardZero ==
    (ext.called /\ ext.params[ext.key].t = "number") =>
        LET v == ext.params[ext.key].n IN
            /\ ext.reqNum.err.nil
            /\ ext.optNum.present
            /\ IsTruncationOf(ext.reqNum.val, v)
            /\ IsTruncationOf(ext.optNum.val, v)
            /\ v = 427 => ext.reqNum.val = 42
            /\ v = -59 => ext.reqNum.val = -5
            /\ v = -5 => ext.reqNum.val = 0

\* the helpers were given -5.9 and returned -5
C25_Witness ==
    /\ ext.called
    /\ ext.params[ext.key] = Number(-59)
    /\ ext.reqNum.val = -5
    /\ ext.optNum.val = -5

\* the helpers were given -0.5 and returned 0
C25_ZeroWitness ==
    /\ ext.called
    /\ ext.params[ext.key] = Number(-5)
    /\ ext.reqNum.val = 0
    /\ ext.optNum.present /\ ext.optNum.val = 0

\* the helpers were given 42.7 and returned 42
C25_PositiveWitness ==
    /\ ext.called
    /\ ext.params[ext.key] = Number(427)
    /\ ext.reqNum.val = 42

----------------------------------------------------------------------------
\* a debug record that has the method and the endpoint, and nothing else
OnlyMethodAndEndpoint(rec, method, endpoint) ==
    /\ rec.level = "DEBUG"
    /\ rec.attrs = << <<"method", <<method>> >>, <<"endpoint", endpoint>> >>

\* the other tokens and bodies a run could have had
OtherTokens == Tokens \cup {"", "secret-token"}
OtherBodies ==
    MrBodies \cup {[NoBody EXCEPT !.present = TRUE, !.description = <<"secret">>,
                                  !.project_id = [present |-> TRUE, val |-> 7]]}

\* C26: makeRequest writes one debug record for each request it hands to the
\* transport and none otherwise; the record has the method and the endpoint
\* only, so the log is the same for every other API token and request body.
C26_LogHasMethodAndEndpointOnly ==
    /\ \A i \in 1..Len(requests) :
           /\ Len(requests[i].log) = 1
           /\ OnlyMethodAndEndpoint(requests[i].log[1], requests[i].method,
                                    requests[i].endpoint)
           /\ \A t \in OtherTokens, b \in OtherBodies :
                  Do([client EXCEPT !.APIToken = t],
                     makeRequest(requests[i].method, requests[i].endpoint, b)).log
                      = requests[i].log
    /\ mr.called =>
           /\ Len(mr.out.log) = Len(mr.out.sent)
           /\ Len(mr.out.log) <= 1
           /\ \A i \in 1..Len(mr.out.log) :
                  OnlyMethodAndEndpoint(mr.out.log[i], mr.method, mr.endpoint)
           /\ \A t \in OtherTokens, b \in OtherBodies :
                  makeRequestReturns([client EXCEPT !.APIToken = t], mr.method,
                                     mr.endpoint, b, mr.ans).log = mr.out.log

\* a POST with a body went to the transport under a token, with its one record
C26_Witness ==
    /\ mr.called
    /\ mr.method = MethodPost
    /\ mr.body.present
    /\ client.APIToken = "integration-token"
    /\ Len(mr.out.sent) = 1
    /\ Len(mr.out.log) = 1

\* start_time_entry has sent its request, whose body has the description
C26_HandlerWitness ==
    /\ tool = "start_time_entry"
    /\ Len(requests) = 1
    /\ requests[1].body.description # <<>>
    /\ Len(requests[1].log) = 1

\* makeRequest wrote no record for a request it could not create
C26_NoRequestWitness ==
    /\ mr.called
    /\ mr.out.sent = <<>>
    /\ mr.out.log = <<>>

----------------------------------------------------------------------------
\* C27: the POST body of start_time_entry has the description that was given,
\* duration -1 and created_with "toggl-mcp", and a project_id exactly when
\* the project_id argument is a number (0 included), with its truncated value;
\* workspace_id 0 is accepted and is the workspace of the path.
C27_StartTimeEntryBody ==
    tool = "start_time_entry" =>
        /\ \A i \in 1..Len(requests) :
               /\ i = 1
               /\ requests[i].method = "POST"
               /\ requests[i].endpoint = WorkspacePath(args, <<"/time_entries">>)
               /\ requests[i].body.present
               /\ requests[i].body.description = args["description"].s
               /\ requests[i].body.duration = -1
               /\ requests[i].body.created_with = "toggl-mcp"
               /\ requests[i].body.project_id.present <=> args["project_id"].t = "number"
               /\ args["project_id"].t = "number" =>
                      /\ IsTruncationOf(requests[i].body.project_id.val, args["project_id"].n)
                      /\ (args["project_id"] = Number(0) =>
                              requests[i].body.project_id = [present |-> TRUE, val |-> 0])
        /\ (NonEmptyString(args["description"]) /\ args["workspace_id"] = Number(0)) =>
               /\ Len(requests) = 1
               /\ requests[1].endpoint = <<"/workspaces/", "0", "/time_entries">>

\* start_time_entry was called with workspace_id 0 and project_id 0
C27_Witness ==
    /\ tool = "start_time_entry"
    /\ args["workspace_id"] = Number(0)
    /\ args["project_id"] = Number(0)
    /\ Len(requests) = 1
    /\ requests[1].body.project_id = [present |-> TRUE, val |-> 0]

\* start_time_entry was called with a project_id that is no number
C27_NoProjectWitness ==
    /\ tool = "start_time_entry"
    /\ args["project_id"] = String(<<"7">>)
    /\ Len(requests) = 1
    /\ ~requests[1].body.project_id.present

\* start_time_entry was called with the project_id -5.9
C27_TruncatedWitness ==
    /\ tool = "start_time_entry"
    /\ args["project_id"] = Number(-59)
    /\ Len(requests) = 1
    /\ requests[1].body.project_id.val = -5

----------------------------------------------------------------------------
\* C28: the body of every HTTP response a handler obtains from makeRequest
\* is closed exactly once by the time the handler goes on or returns, on every
\* path (success, read error, APIError, decode error, the 404 of the two
\* current-entry lookups); where the transport failed there is no response
\* and nothing is closed.
C28_BodyClosedExactlyOnce ==
    tool \in HandlerTools =>
        /\ Len(closed) = Len(responses)
        /\ \A i \in 1..Len(responses) :
               closed[i] = IF responses[i].ok THEN 1 ELSE 0

\* get_current_time_entry has returned on a 404, the body closed once
C28_Witness ==
    /\ Returned
    /\ tool = "get_current_time_entry"
    /\ Len(responses) = 1
    /\ responses[1].ok
    /\ responses[1].resp.status = StatusNotFound
    /\ closed = <<1>>

\* stop_time_entry has returned after two responses, each closed once, the
\* second with a body that failed while it was read
C28_ReadErrorWitness ==
    /\ Returned
    /\ tool = "stop_time_entry"
    /\ Len(responses) = 2
    /\ ~responses[2].resp.readOK
    /\ closed = <<1, 1>>

\* a handler has returned on an APIError, the body closed once
C28_APIErrorWitness ==
    /\ Returned
    /\ tool = "create_project"
    /\ Len(responses) = 1
    /\ responses[1].ok
    /\ responses[1].resp.status = 500
    /\ closed = <<1>>

----------------------------------------------------------------------------
\* the call ended on a readable 2xx response that decoded
EndedByDecoded2xx ==
    /\ Len(responses) > 0
    /\ LastAnswer.ok
    /\ LastAnswer.resp.readOK
    /\ Is2xx(LastAnswer.resp.status)
    /\ ~Unparsable(LastAnswer.resp.body, ShapeOf(tool))

\* the call ended on the 404 of the current-entry lookup
EndedByNoRunningEntry ==
    /\ tool \in CurrentEntryTools
    /\ Len(responses) = 1
    /\ responses[1].ok
    /\ responses[1].resp.status = StatusNotFound

\* C29: every return of a handler gives exactly one of a non-nil result and
\* a non-nil hard error; a flagged result is given only for an APIError (a
\* readable non-2xx response), an unflagged one only after a 2xx response that
\* decoded or on the 404 of the current-entry lookup.
C29_ResultXorError ==
    Returned =>
        /\ result.nil <=> ~err.nil
        /\ (~result.nil /\ result.IsError) =>
               /\ Len(responses) > 0
               /\ LastAnswer.ok
               /\ LastAnswer.resp.readOK
               /\ ~Is2xx(LastAnswer.resp.status)
               /\ dec.called /\ ErrorsAsAPIError(dec.err)
        /\ (~result.nil /\ ~result.IsError) =>
               (EndedByDecoded2xx \/ EndedByNoRunningEntry)

\* a handler has returned a flagged result and no error
C29_Witness ==
    /\ Returned
    /\ ~result.nil /\ result.IsError /\ err.nil
    /\ LastAnswer.resp.status = 401

\* a handler has returned an unflagged result and no error
C29_SuccessWitness ==
    /\ Returned
    /\ tool = "create_project"
    /\ ~result.nil /\ ~result.IsError /\ err.nil
    /\ LastAnswer.resp.status = 200

\* a handler has returned a hard error and no result before any request
C29_HardErrorWitness ==
    /\ Returned
    /\ tool = "create_project"
    /\ result.nil /\ ~err.nil
    /\ requests = <<>>

----------------------------------------------------------------------------
\* the description of the entry the lookup returned
LookedUpDescription ==
    Unmarshal(responses[1].resp.body, TimeEntry, Zero(TimeEntry)).val["description"].s

\* C30: stop_time_entry sends the PATCH only after its lookup was answered
\* 2xx with a body that decoded; the PATCH goes to the caller's workspace_id
\* and the id decoded from the lookup; the "Stopped time entry" text has the
\* description and id of the entry looked up, not those of the PATCH response.
C30_StopAfterLookup ==
    tool = "stop_time_entry" =>
        /\ \A i \in 1..Len(requests) :
               requests[i].method = "PATCH" =>
                   /\ i = 2
                   /\ LookupDecoded
                   /\ requests[i].endpoint =
                          WorkspacePath(args, <<"/time_entries/">> \o Itoa(LookedUpID)
                                              \o <<"/stop">>)
        /\ (Returned /\ ~result.nil /\ Head(result.text) = "Stopped time entry: ") =>
               /\ Len(responses) = 2
               /\ LookupDecoded
               /\ result.text = <<"Stopped time entry: ">> \o LookedUpDescription
                                \o <<" (ID: ">> \o Itoa(LookedUpID) \o <<")">>

\* the lookup returned entry 7 "Task", the PATCH an object without id and
\* description, and the text names entry 7
C30_Witness ==
    /\ Returned
    /\ tool = "stop_time_entry"
    /\ Len(responses) = 2
    /\ responses[1].resp.body = EntryObject
    /\ responses[2].ok /\ responses[2].resp.status = 200
    /\ responses[2].resp.body = <<"{", "}">>
    /\ result.text = <<"Stopped time entry: ", "Task", " (ID: ", "7", ")">>

\* the lookup did not decode and the call is over with the one request
C30_NoPatchWitness ==
    /\ Returned
    /\ tool = "stop_time_entry"
    /\ Len(responses) = 1
    /\ responses[1].ok /\ responses[1].resp.status = 200
    /\ responses[1].resp.body = <<"{", "broken json">>
    /\ Len(requests) = 1
====
